---- MODULE Spec2Model ----
(***************************************************************************)
(* A model of the OAuth 2.0 credential lifecycle of lyft_rides:           *)
(* auth.py (grants, token operations), session.py (Session,               *)
(* OAuth2Credential) and client.py (LyftRidesClient dispatch).            *)
(*                                                                         *)
(* Encodings.  Python None is the string "None" wherever the slot holds    *)
(* one-piece strings.  A dict is a TLA+ function whose DOMAIN is the set   *)
(* of keys present.  A client secret is the sequence of its hyphen         *)
(* separated segments ("-".join(parts) is the concatenation of the         *)
(* parts).  A space delimited scope string is the sequence of its words.   *)
(* An exception message is the sequence <<template, arguments...>>.        *)
(* A response body that is JSON text is the dict it decodes to; a body     *)
(* that is not JSON text is the one-key function NonJsonBody.  A response  *)
(* without a content-type header has content_type None; otherwise          *)
(* content_type is the header's text.  JSON null is None.                  *)
(* Objects live in a heap: creds and sessions are sequences indexed by     *)
(* object identity, so that aliasing and in-place mutation are visible.    *)
(***************************************************************************)
EXTENDS Integers, Sequences, FiniteSets, TLC

VARIABLES
    now,              \* int(time()), the wall clock in seconds
    grant,            \* the grant object (AuthorizationCodeGrant or ClientCredentialGrant)
    gs,               \* the main thread's last get_session call
    creds,            \* heap of OAuth2Credential objects
    born,             \* history: per credential, construction time and lifetime
    sessions,         \* heap of Session objects
    client_session,   \* LyftRidesClient.session (0: no client constructed yet)
    pc,               \* per caller: position inside LyftRidesClient._api_call
    credential,       \* per caller: local `credential` of refresh_oauth_credential
    refresh_session,  \* per caller: local `refresh_session`
    sent,             \* per caller: HTTP requests sent by the current/last call
    outcome,          \* per caller: how the last call ended
    calls,            \* number of client operations started
    overwrites,       \* history: session assignments that clobbered another refresh
    revoked,          \* history: access tokens the revoke endpoint has accepted
    storage,          \* the credential storage file of the example scripts
    arg,              \* the HTTP response handed to a function applied on its own
    result,           \* what that function returned or raised
    grant_args,       \* history: the class of the grant and its constructor's arguments
    authorization_url, \* what the last get_authorization_url call returned
    accepted          \* history: the state of each redirect get_session made a Session of

vars == <<now, grant, gs, creds, born, sessions, client_session, pc,
          credential, refresh_session, sent, outcome, calls, overwrites,
          revoked, storage, arg, result, grant_args, authorization_url, accepted>>

-----------------------------------------------------------------------------
(* Bounds of the model *)

MaxTime == 3
MaxExpiresIn == 1
MaxCalls == 2
MaxParams == 3
MaxSessions == 2

StartTime == 1

-----------------------------------------------------------------------------
(* Values *)

None == "None"

AUTHORIZATION_CODE_GRANT == "authorization_code"
CLIENT_CREDENTIAL_GRANT == "client_credentials"
REFRESH_TOKEN == "refresh_token"
CODE_RESPONSE_TYPE == "code"
SANDBOX_MODE_PREFIX == <<"SANDBOX">>
OAUTH_TOKEN_TYPE == "Bearer"
IMPLICIT_GRANT == "implicit"

GrantTypes == {AUTHORIZATION_CODE_GRANT, CLIENT_CREDENTIAL_GRANT, IMPLICIT_GRANT}

ClientId == "app"
ClientSecret == <<"s3cret">>
AppScopes == {"public", "profile"}
StateTokens == {"v1", "v2"}

\* string.ascii_letters and string.digits, one-character strings in order
ascii_letters ==
    <<"a", "b", "c", "d", "e", "f", "g", "h", "i", "j", "k", "l", "m",
      "n", "o", "p", "q", "r", "s", "t", "u", "v", "w", "x", "y", "z",
      "A", "B", "C", "D", "E", "F", "G", "H", "I", "J", "K", "L", "M",
      "N", "O", "P", "Q", "R", "S", "T", "U", "V", "W", "X", "Y", "Z">>

digits == <<"0", "1", "2", "3", "4", "5", "6", "7", "8", "9">>

\* _generate_state_token's default length
StateTokenLength == 32

\* ''.join(parts) for one-piece strings
RECURSIVE JoinChars(_)
JoinChars(parts) ==
    IF parts = <<>> THEN "" ELSE Head(parts) \o JoinChars(Tail(parts))

\* AuthorizationCodeGrant._generate_state_token; random_draws[i] is the
\* position in `choices` that the i-th SystemRandom().choice(choices) picks
generate_state_token(length, random_draws) ==
    LET choices == ascii_letters \o digits
    IN JoinChars([i \in 1..length |-> choices[random_draws[i]]])

\* Outcomes of the random generator the model follows: the positions drawn
\* alternate between two positions of the alphabet
RandomDraws ==
    {[i \in 1..StateTokenLength |-> IF i % 2 = 1 THEN pair[1] ELSE pair[2]] :
        pair \in {<<1, 60>>, <<52, 17>>}}

GeneratedStateTokens ==
    {generate_state_token(StateTokenLength, random_draws) :
        random_draws \in RandomDraws}

\* key=value pairs a redirect URL's query string is made of
QueryPairs ==
    ({"state"} \X ({""} \cup StateTokens \cup GeneratedStateTokens))
    \cup ({"code"} \X {"", "c1"})
    \cup ({"error"} \X {"", "access_denied"})
AccessTokens == {"at0", "at1"}
RefreshTokens == {"rt1"}
ScopeStrings == {<<"public">>}

Get(d, k) == IF k \in DOMAIN d THEN d[k] ELSE None

Truthy(v) == v # None /\ v # ""

\* Python's `needle in haystack` for two strings
Contains(needle, haystack) ==
    \E i \in 1..(Len(haystack) - Len(needle) + 1) :
        SubSeq(haystack, i, i + Len(needle) - 1) = needle

JoinHyphen(parts) == parts[1] \o parts[2]

Perms(S) ==
    {s \in [1..Cardinality(S) -> S] : \A i, j \in 1..Cardinality(S) : i # j => s[i] # s[j]}

SeqToSet(s) == {s[i] : i \in DOMAIN s}

Exc(kind, message) == [kind |-> kind, message |-> message]

NonJsonBody == [raw_text |-> "<html>"]

\* response.json(): the decoded body, or the decoder's ValueError
json(response) ==
    IF "raw_text" \in DOMAIN response.body
    THEN [raised |-> TRUE, exc |-> Exc("ValueError", <<"No JSON object could be decoded">>)]
    ELSE [raised |-> FALSE, value |-> response.body]

-----------------------------------------------------------------------------
(* errors.py *)

ErrorDetails(parameter, title) == [parameter |-> parameter, title |-> title]

\* Variant: a dict entry of error_detail yields one ErrorDetails, its first pair
detail_items_first_pair(errors) ==
    LET dicts == SelectSeq(errors, LAMBDA error : error.is_dict /\ error.items # <<>>)
    IN [i \in DOMAIN dicts |-> ErrorDetails(dicts[i].items[1][1], dicts[i].items[1][2])]

RECURSIVE detail_items(_)
detail_items(errors) ==
    IF errors = <<>> THEN <<>>
    ELSE LET error == Head(errors)
             these == IF error.is_dict
                      THEN [i \in DOMAIN error.items |->
                               ErrorDetails(error.items[i][1], error.items[i][2])]
                      ELSE <<>>
         IN these \o detail_items(Tail(errors))

\* Variant: the description is added after the details of error_detail
simple_response_to_error_adapter_adds_description(status, original_body) ==
    LET meta == Get(original_body, "error")
        details == IF "error_detail" \in DOMAIN original_body
                   THEN detail_items(original_body.error_detail)
                   ELSE <<>>
        description == IF "error_description" \in DOMAIN original_body
                       THEN <<original_body.error_description>>
                       ELSE <<>>
    IN [errors |-> details \o description, meta |-> meta]

simple_response_to_error_adapter(status, original_body) ==
    LET meta == Get(original_body, "error")
        e == IF "error_detail" \in DOMAIN original_body
             THEN detail_items(original_body.error_detail)
             ELSE IF "error_description" \in DOMAIN original_body
             THEN <<original_body.error_description>>
             ELSE <<>>
    IN [errors |-> e, meta |-> meta]

UnknownHttpError(response) ==
    [kind |-> "UnknownHttpError", message |-> <<>>, response |-> response]

\* HTTPError._adapt_response: the (errors, meta) pair, or what it raises instead
adapt_response(response) ==
    IF response.content_type = None
    THEN [raised |-> TRUE, exc |-> Exc("KeyError", <<"content-type">>)]
    ELSE IF Contains("application/json", response.content_type)
    THEN LET body == json(response)
         IN IF body.raised THEN body
            ELSE IF Truthy(Get(body.value, "error"))
            THEN [raised |-> FALSE,
                  value |-> simple_response_to_error_adapter(response.status_code,
                                                             body.value)]
            ELSE [raised |-> TRUE, exc |-> UnknownHttpError(response)]
    ELSE [raised |-> TRUE, exc |-> UnknownHttpError(response)]

DefaultClientMessage ==
    <<"The request contains bad syntax or cannot be filled due to a fault from the client sending the request.">>

\* Python's `not message` in ClientError.__init__: None, '' and [] are false.
\* A message that is one string (or None) is the one-piece sequence of it, a
\* message that is a list is the list; the pieces are compared by their
\* printed form because a piece may be a string or an error_detail entry.
not_message(message) ==
    \/ Len(message) = 0
    \/ /\ Len(message) = 1
       /\ ToString(message[1]) \in {ToString(None), ToString("")}

\* The exception that `raise ClientError(response, message)` ends up raising:
\* the constructor itself raises whatever _adapt_response raises.
ClientError(response, message) ==
    LET a == adapt_response(response)
    IN IF a.raised THEN a.exc
       ELSE [kind |-> "ClientError",
             message |-> IF not_message(message) THEN DefaultClientMessage ELSE message,
             errors |-> a.value.errors, meta |-> a.value.meta,
             response |-> response]

LyftIllegalState(message) == Exc("LyftIllegalState", message)

-----------------------------------------------------------------------------
(* session.py *)

\* Variant: the relative lifetime is stored as if it were the absolute expiry
OAuth2Credential_relative_expiry(client_id, access_token, expires_in_seconds, scopes, grant_type, client_secret, refresh_token, t) ==
    [client_id |-> client_id,
     access_token |-> access_token,
     expires_in_seconds |-> expires_in_seconds,
     scopes |-> scopes,
     grant_type |-> grant_type,
     client_secret |-> client_secret,
     refresh_token |-> refresh_token]

\* OAuth2Credential.__init__ at clock value t
OAuth2Credential(client_id, access_token, expires_in_seconds, scopes, grant_type, client_secret, refresh_token, t) ==
    [client_id |-> client_id,
     access_token |-> access_token,
     expires_in_seconds |-> t + expires_in_seconds,
     scopes |-> scopes,
     grant_type |-> grant_type,
     client_secret |-> client_secret,
     refresh_token |-> refresh_token]

\* Variant: stale only once the expiry has been passed
is_stale_past_expiry(cred, t) == cred.expires_in_seconds - t < 0

\* Variant: a one second grace margin
is_stale_with_margin(cred, t) == cred.expires_in_seconds - t <= 1

\* OAuth2Credential.is_stale at clock value t
is_stale(cred, t) == cred.expires_in_seconds - t <= 0

\* OAuth2Credential.make_from_response at clock value t
make_from_response(response, grant_type, client_id, client_secret, t) ==
    IF response.status_code # 200
    THEN [raised |-> TRUE,
          exc |-> ClientError(response, <<"Error with Access Token Request", response.reason>>)]
    ELSE LET body == json(response)
         IN IF body.raised THEN body
            ELSE IF "scope" \notin DOMAIN body.value
            THEN [raised |-> TRUE, exc |-> Exc("AttributeError", <<"split">>)]
            ELSE IF "expires_in" \notin DOMAIN body.value
            THEN [raised |-> TRUE, exc |-> Exc("TypeError", <<"int">>)]
            ELSE [raised |-> FALSE,
                  value |-> OAuth2Credential(client_id,
                                             Get(body.value, "access_token"),
                                             body.value.expires_in,
                                             SeqToSet(body.value.scope),
                                             grant_type,
                                             client_secret,
                                             Get(body.value, "refresh_token"),
                                             t),
                  ttl |-> body.value.expires_in]

\* Variant: a Session is built whatever it is given
Session_without_check(oauth2credential) ==
    [raised |-> FALSE,
     value |-> [oauth2credential |-> oauth2credential, token_type |-> OAUTH_TOKEN_TYPE]]

\* Session.__init__: the object built for a credential reference (0 is None)
Session(oauth2credential) ==
    IF oauth2credential = 0
    THEN [raised |-> TRUE,
          exc |-> LyftIllegalState(<<"Session must have OAuth 2.0 Credentials.">>)]
    ELSE [raised |-> FALSE,
          value |-> [oauth2credential |-> oauth2credential, token_type |-> OAUTH_TOKEN_TYPE]]

-----------------------------------------------------------------------------
(* The authorization server's answers on the token endpoint *)

Response(status_code, reason, content_type, body) ==
    [status_code |-> status_code, reason |-> reason,
     content_type |-> content_type, body |-> body]

TokenBodies ==
    {[access_token |-> a, expires_in |-> e, scope |-> s] :
        a \in AccessTokens, e \in 0..MaxExpiresIn, s \in ScopeStrings}
    \cup
    {[access_token |-> a, expires_in |-> e, scope |-> s, refresh_token |-> r] :
        a \in AccessTokens, e \in 0..MaxExpiresIn, s \in ScopeStrings, r \in RefreshTokens}
    \cup
    {[access_token |-> "at1", expires_in |-> 1],
     [access_token |-> "at1", scope |-> <<"public">>]}

ErrorBodies ==
    {[error |-> "invalid_grant"],
     [error |-> "invalid_grant", error_description |-> "expired"],
     [error_description |-> "expired"]}

TokenResponses ==
    {Response(200, "OK", "application/json", b) : b \in TokenBodies}
    \cup
    {Response(401, "Unauthorized", "application/json", b) : b \in ErrorBodies}
    \cup
    {Response(503, "Service Unavailable", "text/html", [error |-> "server_error"]),
     Response(503, "Service Unavailable", "application/json", [error |-> "server_error"]),
     Response(500, "Internal Server Error", None, NonJsonBody),
     Response(502, "Bad Gateway", "application/json", NonJsonBody)}

\* The authorization server's answers on the revoke endpoint
RevokeResponses ==
    {Response(200, "OK", None, NonJsonBody),
     Response(401, "Unauthorized", "application/json", [error |-> "invalid_token"]),
     Response(400, "Bad Request", None, NonJsonBody),
     Response(503, "Service Unavailable", "text/html", NonJsonBody)}

-----------------------------------------------------------------------------
(* auth.py *)

\* urllib parse_qs on the query string: pairs with a blank value are dropped,
\* the values of a key are listed in order of appearance.
parse_qs(qs) ==
    LET kept == SelectSeq(qs, LAMBDA p : p[2] # "")
        values(k) == SelectSeq(kept, LAMBDA p : p[1] = k)
    IN [k \in {kept[i][1] : i \in DOMAIN kept} |->
           [i \in DOMAIN values(k) |-> values(k)[i][2]]]

\* OAuth2._extract_query; a redirect URL is given by the pairs of its query string
extract_query(redirect_url) ==
    LET query_params == parse_qs(redirect_url)
    IN [qp \in DOMAIN query_params |-> query_params[qp][1]]

\* Variant: a state token is always generated, the one supplied is ignored
AuthorizationCodeGrant_always_generates(client_id, client_secret, scopes, is_sandbox_mode, state_token, random_draws) ==
    [client_id |-> client_id,
     scopes |-> scopes,
     client_secret |-> IF is_sandbox_mode
                       THEN JoinHyphen(<<SANDBOX_MODE_PREFIX, client_secret>>)
                       ELSE client_secret,
     state_token |-> generate_state_token(StateTokenLength, random_draws)]

\* AuthorizationCodeGrant.__init__; random_draws is what the random generator
\* yields if it is asked
AuthorizationCodeGrant(client_id, client_secret, scopes, is_sandbox_mode, state_token, random_draws) ==
    [client_id |-> client_id,
     scopes |-> scopes,
     client_secret |-> IF is_sandbox_mode
                       THEN JoinHyphen(<<SANDBOX_MODE_PREFIX, client_secret>>)
                       ELSE client_secret,
     state_token |-> IF state_token # None
                     THEN state_token
                     ELSE generate_state_token(StateTokenLength, random_draws)]

\* Variant: the secret is stored as given, whatever the mode
ClientCredentialGrant_never_prefixed(client_id, client_secret, scopes, is_sandbox_mode) ==
    [client_id |-> client_id,
     scopes |-> scopes,
     client_secret |-> client_secret]

\* ClientCredentialGrant.__init__
ClientCredentialGrant(client_id, client_secret, scopes, is_sandbox_mode) ==
    [client_id |-> client_id,
     scopes |-> scopes,
     client_secret |-> IF is_sandbox_mode
                       THEN JoinHyphen(<<SANDBOX_MODE_PREFIX, client_secret>>)
                       ELSE client_secret]

\* Variant: a code is accepted whatever else the redirect carries
verify_code_or_error_code_wins(query_params) ==
    LET error == Get(query_params, "error")
        authorization_code == Get(query_params, CODE_RESPONSE_TYPE)
    IN IF Truthy(authorization_code)
       THEN [raised |-> FALSE, value |-> authorization_code]
       ELSE IF error = None
       THEN [raised |-> TRUE, exc |-> LyftIllegalState(
                <<"Neither query parameter code or error is set.">>)]
       ELSE [raised |-> TRUE, exc |-> LyftIllegalState(<<error>>)]

\* Variant: the server's error text is replaced by a fixed message
verify_code_or_error_fixed_message(query_params) ==
    LET error == Get(query_params, "error")
        authorization_code == Get(query_params, CODE_RESPONSE_TYPE)
    IN IF Truthy(error) /\ Truthy(authorization_code)
       THEN [raised |-> TRUE, exc |-> LyftIllegalState(
                <<"Code and Error query params code and error can not both be set.">>)]
       ELSE IF error = None /\ authorization_code = None
       THEN [raised |-> TRUE, exc |-> LyftIllegalState(
                <<"Neither query parameter code or error is set.">>)]
       ELSE IF Truthy(error)
       THEN [raised |-> TRUE, exc |-> LyftIllegalState(<<"Authorization failed.">>)]
       ELSE [raised |-> FALSE, value |-> authorization_code]

\* AuthorizationCodeGrant._verify_query, lines 211-229: code and error
verify_code_or_error(query_params) ==
    LET error == Get(query_params, "error")
        authorization_code == Get(query_params, CODE_RESPONSE_TYPE)
    IN IF Truthy(error) /\ Truthy(authorization_code)
       THEN [raised |-> TRUE, exc |-> LyftIllegalState(
                <<"Code and Error query params code and error can not both be set.">>)]
       ELSE IF error = None /\ authorization_code = None
       THEN [raised |-> TRUE, exc |-> LyftIllegalState(
                <<"Neither query parameter code or error is set.">>)]
       ELSE IF Truthy(error)
       THEN [raised |-> TRUE, exc |-> LyftIllegalState(<<error>>)]
       ELSE [raised |-> FALSE, value |-> authorization_code]

\* Variant: the state parameter must be present but is not compared
verify_query_state_not_compared(self, query_params) ==
    LET received_state_token == Get(query_params, "state")
    IN IF received_state_token = None
       THEN [raised |-> TRUE, exc |-> LyftIllegalState(
                <<"Bad Request. Missing state parameter.">>)]
       ELSE verify_code_or_error(query_params)

\* AuthorizationCodeGrant._verify_query
verify_query(self, query_params) ==
    LET received_state_token == Get(query_params, "state")
    IN IF received_state_token = None
       THEN [raised |-> TRUE, exc |-> LyftIllegalState(
                <<"Bad Request. Missing state parameter.">>)]
       ELSE IF self.state_token = None
       THEN [raised |-> TRUE, exc |-> LyftIllegalState(
                <<"Missing CSRF State Token in session.">>)]
       ELSE IF self.state_token # received_state_token
       THEN [raised |-> TRUE, exc |-> LyftIllegalState(
                <<"CSRF Error. Expected {}, got {}", self.state_token, received_state_token>>)]
       ELSE verify_code_or_error(query_params)

\* ' '.join(scopes) for a set: the words in the set's iteration order
join_scopes(scopes) == Perms(scopes)

VALID_RESPONSE_TYPES == {CODE_RESPONSE_TYPE}
SERVER_HOST == "api.lyft.com"
AUTHORIZE_PATH == "oauth/authorize"

\* utils.request.build_url: a URL is given by its host, its path and the
\* key/value pairs of its query string in order
build_url(host, path, args) == [host |-> host, path |-> path, query |-> args]

\* OAuth2._build_authorization_request_url: the exception raised, or the URLs
\* it can return, one per iteration order of the scope set
build_authorization_request_url(self, response_type, state) ==
    IF response_type \notin VALID_RESPONSE_TYPES
    THEN [raised |-> TRUE,
          exc |-> LyftIllegalState(<<"{} is not a valid response type.", response_type>>)]
    ELSE [raised |-> FALSE,
          urls |-> {build_url(SERVER_HOST, AUTHORIZE_PATH,
                              <<<<"scope", scope>>,
                                <<"state", state>>,
                                <<"response_type", response_type>>,
                                <<"client_id", self.client_id>>>>) :
                        scope \in join_scopes(self.scopes)}]

\* AuthorizationCodeGrant.get_authorization_url
get_authorization_url(self) ==
    build_authorization_request_url(self, CODE_RESPONSE_TYPE, self.state_token)

\* request_access_token, lines 344-360: the POST it sends to the token endpoint
TokenRequest(grant_type, client_id, client_secret, scope, code, refresh_token) ==
    [kind |-> "token",
     auth |-> <<client_id, client_secret>>,
     grant_type |-> grant_type,
     client_id |-> client_id,
     client_secret |-> client_secret,
     scope |-> scope,
     code |-> code,
     refresh_token |-> refresh_token]

\* request_access_token, lines 362-367: what it does with the answer
request_access_token(response) ==
    IF response.status_code = 200
    THEN [raised |-> FALSE, value |-> response]
    ELSE [raised |-> TRUE,
          exc |-> ClientError(response, <<"Failed to request access token", response.reason>>)]

\* Variant: every supported grant type is refreshed with a refresh token
refresh_requests_always_refresh_token(cred) ==
    IF cred.grant_type \in {AUTHORIZATION_CODE_GRANT, CLIENT_CREDENTIAL_GRANT}
    THEN [raised |-> FALSE,
          requests |-> {TokenRequest(REFRESH_TOKEN, cred.client_id, cred.client_secret,
                                     None, None, cred.refresh_token)}]
    ELSE [raised |-> TRUE,
          exc |-> LyftIllegalState(
                <<"{} Grant Type does not support Refresh Tokens.", cred.grant_type>>)]

\* Variant: any other grant type is refreshed like a client credentials one
refresh_requests_any_grant_type(cred) ==
    IF cred.grant_type = AUTHORIZATION_CODE_GRANT
    THEN [raised |-> FALSE,
          requests |-> {TokenRequest(REFRESH_TOKEN, cred.client_id, cred.client_secret,
                                     None, None, cred.refresh_token)}]
    ELSE [raised |-> FALSE,
          requests |-> {TokenRequest(CLIENT_CREDENTIAL_GRANT, cred.client_id,
                                     cred.client_secret, s, None, None) :
                            s \in join_scopes(cred.scopes)}]

\* refresh_access_token up to the POST: the dispatch on the grant type
refresh_requests(cred) ==
    IF cred.grant_type = AUTHORIZATION_CODE_GRANT
    THEN [raised |-> FALSE,
          requests |-> {TokenRequest(REFRESH_TOKEN, cred.client_id, cred.client_secret,
                                     None, None, cred.refresh_token)}]
    ELSE IF cred.grant_type = CLIENT_CREDENTIAL_GRANT
    THEN [raised |-> FALSE,
          requests |-> {TokenRequest(CLIENT_CREDENTIAL_GRANT, cred.client_id,
                                     cred.client_secret, s, None, None) :
                            s \in join_scopes(cred.scopes)}]
    ELSE [raised |-> TRUE,
          exc |-> LyftIllegalState(
                <<"{} Grant Type does not support Refresh Tokens.", cred.grant_type>>)]

\* The credential a token response yields for a grant type, or the exception raised
\* (request_access_token's status check, then OAuth2Credential.make_from_response)
credential_from(response, grant_type, client_id, client_secret, t) ==
    LET r == request_access_token(response)
    IN IF r.raised THEN r
       ELSE make_from_response(r.value, grant_type, client_id, client_secret, t)

\* revoke_access_token, lines 433-439: the POST it sends to the revoke endpoint
RevokeRequest(cred) == [kind |-> "revoke", token |-> cred.access_token]

\* revoke_access_token, lines 441-446: what it does with the answer
revoke_access_token(response) ==
    IF response.status_code = 200
    THEN [raised |-> FALSE, value |-> None]
    ELSE [raised |-> TRUE,
          exc |-> ClientError(response, <<"Failed to revoke access token", response.reason>>)]

-----------------------------------------------------------------------------
(* Inputs *)

RedirectUrls ==
    UNION {[1..n -> QueryPairs] : n \in 0..MaxParams}

\* The fields examples/utils.py create_lyft_client is handed
StoredCredentials ==
    {[client_id |-> ClientId, access_token |-> "at0", expires_in_seconds |-> e,
      scopes |-> AppScopes, grant_type |-> g, client_secret |-> ClientSecret,
      refresh_token |-> r] :
        e \in 0..MaxExpiresIn, g \in GrantTypes, r \in RefreshTokens \cup {None}}

DomainResponses ==
    {Response(200, "OK", "application/json", [ride_types |-> "all"]),
     Response(400, "Bad Request", "application/json",
              [error |-> "bad_parameter", error_description |-> "lat is required"]),
     Response(500, "Internal Server Error", "application/json", [error |-> "server_error"])}

NoCall == [kind |-> "none"]

\* The storage file has not been written
NoStorage == [kind |-> "none"]

\* No function has been applied on its own
NoResult == [fn |-> "none"]

\* get_authorization_url has not been called
NoUrl == [host |-> "none"]

\* The class of a grant object and the arguments its constructor was given
GrantArgs(class, client_secret, is_sandbox_mode, state_token, random_draws) ==
    [class |-> class, client_secret |-> client_secret,
     is_sandbox_mode |-> is_sandbox_mode, state_token |-> state_token,
     random_draws |-> IF state_token = None THEN random_draws ELSE <<>>]

-----------------------------------------------------------------------------
(* Initial states *)

IdleGetSession == [query_params |-> <<>>, sent |-> <<>>, replies |-> <<>>, outcome |-> NoCall]

InitCallers(C) ==
    /\ pc = [c \in C |-> "idle"]
    /\ credential = [c \in C |-> 0]
    /\ refresh_session = [c \in C |-> 0]
    /\ sent = [c \in C |-> <<>>]
    /\ outcome = [c \in C |-> NoCall]
    /\ calls = 0
    /\ overwrites = 0
    /\ revoked = {}
    /\ storage = NoStorage
    /\ arg = None
    /\ result = NoResult
    /\ authorization_url = NoUrl
    /\ accepted = <<>>

\* An AuthorizationCodeGrant has been constructed, with a state token supplied
\* or without one; there is no client yet
InitGrant ==
    /\ now = StartTime
    /\ \E is_sandbox_mode \in BOOLEAN, state_token \in StateTokens \cup {None},
          random_draws \in RandomDraws :
          /\ grant = AuthorizationCodeGrant(ClientId, ClientSecret, AppScopes,
                                            is_sandbox_mode, state_token, random_draws)
          /\ grant_args = GrantArgs("AuthorizationCodeGrant", ClientSecret,
                                    is_sandbox_mode, state_token, random_draws)
    /\ gs = IdleGetSession
    /\ creds = <<>>
    /\ born = <<>>
    /\ sessions = <<>>
    /\ client_session = 0
    /\ InitCallers({1})

\* examples/utils.py create_lyft_client at clock value StartTime: a credential
\* built from stored fields, a Session holding it, a client holding the Session
create_lyft_client(credentials) ==
    /\ creds = <<OAuth2Credential(credentials.client_id,
                                  credentials.access_token,
                                  credentials.expires_in_seconds,
                                  credentials.scopes,
                                  credentials.grant_type,
                                  credentials.client_secret,
                                  credentials.refresh_token,
                                  StartTime)>>
    /\ born = <<[at |-> StartTime, ttl |-> credentials.expires_in_seconds]>>
    /\ sessions = <<Session(1).value>>
    /\ client_session = 1

InitClient(C, Stored) ==
    /\ now = StartTime
    /\ grant = AuthorizationCodeGrant(ClientId, ClientSecret, AppScopes, TRUE, "v1", <<>>)
    /\ grant_args = GrantArgs("AuthorizationCodeGrant", ClientSecret, TRUE, "v1", <<>>)
    /\ gs = IdleGetSession
    /\ \E credentials \in Stored : create_lyft_client(credentials)
    /\ InitCallers(C)

\* A client used by one caller thread
Init == InitClient({1}, StoredCredentials)

\* A client holding a credential that is already stale, used by one caller
\* thread or shared by two
InitShared ==
    \E C \in {{1}, {1, 2}} :
        InitClient(C, {k \in StoredCredentials : k.expires_in_seconds = 0})

Callers == DOMAIN pc

\* What the operations of the library proper never touch: the storage file and
\* the bookkeeping of the revoke endpoint and of functions applied on their own
otherVars == <<revoked, storage, arg, result, grant_args, authorization_url, accepted>>

\* The history of the grant object and the last authorization URL
grantHistory == <<grant_args, authorization_url, accepted>>

-----------------------------------------------------------------------------
(* The clock *)

Tick ==
    /\ now < MaxTime
    /\ now' = now + 1
    /\ UNCHANGED <<grant, gs, creds, born, sessions, client_session, pc,
                   credential, refresh_session, sent, outcome, calls, overwrites>>
    /\ UNCHANGED otherVars

-----------------------------------------------------------------------------
(* AuthorizationCodeGrant.get_session *)

callerVars == <<pc, credential, refresh_session, sent, outcome, calls, overwrites>>

\* AuthorizationCodeGrant.get_authorization_url, called by the application
\* to send the user to the authorization server
GetAuthorizationUrl ==
    /\ LET r == get_authorization_url(grant)
       IN IF r.raised
          THEN UNCHANGED authorization_url
          ELSE \E url \in r.urls : authorization_url' = url
    /\ UNCHANGED <<now, grant, gs, creds, born, sessions, client_session>>
    /\ UNCHANGED callerVars
    /\ UNCHANGED <<revoked, storage, arg, result, grant_args, accepted>>

\* Variant: the token request is posted with whatever code the redirect
\* carries, and the query is verified afterwards
GetSession_posts_before_verifying(redirect_url) ==
    /\ gs.outcome.kind = "none"
    /\ Len(accepted) < MaxSessions
    /\ LET query_params == extract_query(redirect_url)
           v == verify_query(grant, query_params)
           request == TokenRequest(AUTHORIZATION_CODE_GRANT, grant.client_id,
                                   grant.client_secret, None,
                                   Get(query_params, CODE_RESPONSE_TYPE), None)
       IN gs' = [query_params |-> query_params, replies |-> <<>>,
                 sent |-> <<request>>,
                 outcome |-> IF v.raised THEN v.exc ELSE [kind |-> "pending"]]
    /\ UNCHANGED <<now, grant, creds, born, sessions, client_session>>
    /\ UNCHANGED callerVars
    /\ UNCHANGED otherVars

\* get_session lines 244-252: extract, verify, POST to the token endpoint
GetSession(redirect_url) ==
    /\ gs.outcome.kind = "none"
    /\ Len(accepted) < MaxSessions
    /\ LET query_params == extract_query(redirect_url)
           v == verify_query(grant, query_params)
       IN gs' = IF v.raised
                THEN [query_params |-> query_params, sent |-> <<>>, replies |-> <<>>,
                      outcome |-> v.exc]
                ELSE [query_params |-> query_params, replies |-> <<>>,
                      sent |-> <<TokenRequest(AUTHORIZATION_CODE_GRANT, grant.client_id,
                                              grant.client_secret, None, v.value, None)>>,
                      outcome |-> [kind |-> "pending"]]
    /\ UNCHANGED <<now, grant, creds, born, sessions, client_session>>
    /\ UNCHANGED callerVars
    /\ UNCHANGED otherVars

\* get_session lines 247-261: the token endpoint answers
GetSessionReply(response) ==
    /\ gs.outcome.kind = "pending"
    /\ LET r == credential_from(response, AUTHORIZATION_CODE_GRANT,
                                grant.client_id, grant.client_secret, now)
       IN IF r.raised
          THEN /\ gs' = [gs EXCEPT !.outcome = r.exc, !.replies = <<response>>]
               /\ UNCHANGED <<creds, born, sessions, accepted>>
          ELSE /\ creds' = Append(creds, r.value)
               /\ born' = Append(born, [at |-> now, ttl |-> r.ttl])
               /\ sessions' = Append(sessions, Session(Len(creds) + 1).value)
               /\ gs' = [gs EXCEPT !.replies = <<response>>,
                                    !.outcome = [kind |-> "Session",
                                                 session |-> Len(sessions) + 1]]
               /\ accepted' = Append(accepted, gs.query_params.state)
    /\ UNCHANGED <<now, grant, client_session>>
    /\ UNCHANGED callerVars
    /\ UNCHANGED <<revoked, storage, arg, result, grant_args, authorization_url>>

\* The caller of get_session has taken the Session or caught the exception
\* (examples/authorization_code_grant.py) and keeps no reference to either
GetSessionDone ==
    /\ gs.outcome.kind \notin {"none", "pending"}
    /\ gs' = IdleGetSession
    /\ creds' = <<>>
    /\ born' = <<>>
    /\ sessions' = <<>>
    /\ UNCHANGED <<now, grant, client_session>>
    /\ UNCHANGED callerVars
    /\ UNCHANGED otherVars

-----------------------------------------------------------------------------
(* ClientCredentialGrant.get_session *)

\* get_session lines 293-298: POST to the token endpoint
ClientCredentialGetSession ==
    /\ gs.outcome.kind = "none"
    /\ \E scope \in join_scopes(grant.scopes) :
          gs' = [query_params |-> <<>>, replies |-> <<>>,
                 sent |-> <<TokenRequest(CLIENT_CREDENTIAL_GRANT, grant.client_id,
                                         grant.client_secret, scope, None, None)>>,
                 outcome |-> [kind |-> "pending"]]
    /\ UNCHANGED <<now, grant, creds, born, sessions, client_session>>
    /\ UNCHANGED callerVars
    /\ UNCHANGED otherVars

\* Variant: the credential is labelled with the authorization code grant type
ClientCredentialGetSessionReply_as_authorization_code(response) ==
    /\ gs.outcome.kind = "pending"
    /\ LET r == credential_from(response, AUTHORIZATION_CODE_GRANT,
                                grant.client_id, grant.client_secret, now)
       IN IF r.raised
          THEN /\ gs' = [gs EXCEPT !.outcome = r.exc, !.replies = <<response>>]
               /\ UNCHANGED <<creds, born, sessions>>
          ELSE /\ creds' = Append(creds, r.value)
               /\ born' = Append(born, [at |-> now, ttl |-> r.ttl])
               /\ sessions' = Append(sessions, Session(Len(creds) + 1).value)
               /\ gs' = [gs EXCEPT !.replies = <<response>>,
                                    !.outcome = [kind |-> "Session",
                                                 session |-> Len(sessions) + 1]]
    /\ UNCHANGED <<now, grant, client_session>>
    /\ UNCHANGED callerVars
    /\ UNCHANGED otherVars

\* get_session lines 293-307: the token endpoint answers
ClientCredentialGetSessionReply(response) ==
    /\ gs.outcome.kind = "pending"
    /\ LET r == credential_from(response, CLIENT_CREDENTIAL_GRANT,
                                grant.client_id, grant.client_secret, now)
       IN IF r.raised
          THEN /\ gs' = [gs EXCEPT !.outcome = r.exc, !.replies = <<response>>]
               /\ UNCHANGED <<creds, born, sessions>>
          ELSE /\ creds' = Append(creds, r.value)
               /\ born' = Append(born, [at |-> now, ttl |-> r.ttl])
               /\ sessions' = Append(sessions, Session(Len(creds) + 1).value)
               /\ gs' = [gs EXCEPT !.replies = <<response>>,
                                    !.outcome = [kind |-> "Session",
                                                 session |-> Len(sessions) + 1]]
    /\ UNCHANGED <<now, grant, client_session>>
    /\ UNCHANGED callerVars
    /\ UNCHANGED otherVars

-----------------------------------------------------------------------------
(* utils/handlers.py *)

\* Variant: the last detail is kept instead of the first
ServerError_last_detail(response) ==
    LET a == adapt_response(response)
    IN IF a.raised THEN a.exc
       ELSE [kind |-> "ServerError",
             message |-> <<"The server encounter an error or is unable to process the request.">>,
             error |-> IF a.value.errors # <<>>
                       THEN a.value.errors[Len(a.value.errors)] ELSE None,
             meta |-> a.value.meta,
             response |-> response]

\* ServerError.__init__ with ServerError._adapt_response
ServerError(response) ==
    LET a == adapt_response(response)
    IN IF a.raised THEN a.exc
       ELSE [kind |-> "ServerError",
             message |-> <<"The server encounter an error or is unable to process the request.">>,
             error |-> IF a.value.errors # <<>> THEN a.value.errors[1] ELSE None,
             meta |-> a.value.meta,
             response |-> response]

\* error_handler: the hook run on every answer to a domain request
error_handler(response) ==
    IF 400 <= response.status_code /\ response.status_code <= 499
    THEN LET body == json(response)
         IN IF body.raised THEN body
            ELSE IF "error_description" \in DOMAIN body.value
            THEN [raised |-> TRUE,
                  exc |-> ClientError(response, <<body.value.error_description>>)]
            ELSE IF "error_detail" \in DOMAIN body.value
            THEN [raised |-> TRUE,
                  exc |-> ClientError(response, body.value.error_detail)]
            ELSE [raised |-> TRUE, exc |-> Exc("KeyError", <<"error_detail">>)]
    ELSE IF 500 <= response.status_code /\ response.status_code <= 599
    THEN [raised |-> TRUE, exc |-> ServerError(response)]
    ELSE [raised |-> FALSE, value |-> response]

-----------------------------------------------------------------------------
(* client.py: LyftRidesClient._api_call, one caller c at a time or several *)

\* The request object built from the session the client holds at clock value t:
\* it carries that session's access token as a Bearer credential.
Request(auth_session, t) ==
    [kind |-> "domain",
     authorization |-> <<sessions[auth_session].token_type,
                         creds[sessions[auth_session].oauth2credential].access_token>>,
     session |-> auth_session,
     credential |-> sessions[auth_session].oauth2credential,
     built_at |-> t]

grantVars == <<grant, gs>>

\* refresh_oauth_credential line 345: read the held session's credential
ApiCall(c) ==
    /\ client_session # 0
    /\ pc[c] = "idle"
    /\ calls < MaxCalls
    /\ calls' = calls + 1
    /\ credential' = [credential EXCEPT ![c] = sessions[client_session].oauth2credential]
    /\ refresh_session' = [refresh_session EXCEPT ![c] = 0]
    /\ sent' = [sent EXCEPT ![c] = <<>>]
    /\ outcome' = [outcome EXCEPT ![c] = [kind |-> "pending"]]
    /\ pc' = [pc EXCEPT ![c] = "check"]
    /\ UNCHANGED <<now, creds, born, sessions, client_session, overwrites>>
    /\ UNCHANGED grantVars
    /\ UNCHANGED otherVars

\* Variant: the token request is posted twice when the credential is stale
CheckStale_posts_twice(c) ==
    /\ pc[c] = "check"
    /\ IF is_stale(creds[credential[c]], now)
       THEN LET r == refresh_requests(creds[credential[c]])
            IN IF r.raised
               THEN /\ outcome' = [outcome EXCEPT ![c] = r.exc]
                    /\ pc' = [pc EXCEPT ![c] = "idle"]
                    /\ UNCHANGED sent
               ELSE /\ \E request \in r.requests :
                          sent' = [sent EXCEPT ![c] = Append(Append(@, request), request)]
                    /\ pc' = [pc EXCEPT ![c] = "token_wait"]
                    /\ UNCHANGED outcome
       ELSE /\ pc' = [pc EXCEPT ![c] = "request"]
            /\ UNCHANGED <<sent, outcome>>
    /\ UNCHANGED <<now, creds, born, sessions, client_session, credential,
                   refresh_session, calls, overwrites>>
    /\ UNCHANGED grantVars
    /\ UNCHANGED otherVars

\* Variant: the credential is refreshed whether it is stale or not
CheckStale_always_refreshes(c) ==
    /\ pc[c] = "check"
    /\ LET r == refresh_requests(creds[credential[c]])
       IN IF r.raised
          THEN /\ outcome' = [outcome EXCEPT ![c] = r.exc]
               /\ pc' = [pc EXCEPT ![c] = "idle"]
               /\ UNCHANGED sent
          ELSE /\ \E request \in r.requests :
                     sent' = [sent EXCEPT ![c] = Append(@, request)]
               /\ pc' = [pc EXCEPT ![c] = "token_wait"]
               /\ UNCHANGED outcome
    /\ UNCHANGED <<now, creds, born, sessions, client_session, credential,
                   refresh_session, calls, overwrites>>
    /\ UNCHANGED grantVars
    /\ UNCHANGED otherVars

\* refresh_oauth_credential line 347 and, when stale, refresh_access_token up to
\* the POST to the token endpoint
CheckStale(c) ==
    /\ pc[c] = "check"
    /\ IF is_stale(creds[credential[c]], now)
       THEN LET r == refresh_requests(creds[credential[c]])
            IN IF r.raised
               THEN /\ outcome' = [outcome EXCEPT ![c] = r.exc]
                    /\ pc' = [pc EXCEPT ![c] = "idle"]
                    /\ UNCHANGED sent
               ELSE /\ \E request \in r.requests :
                          sent' = [sent EXCEPT ![c] = Append(@, request)]
                    /\ pc' = [pc EXCEPT ![c] = "token_wait"]
                    /\ UNCHANGED outcome
       ELSE /\ pc' = [pc EXCEPT ![c] = "request"]
            /\ UNCHANGED <<sent, outcome>>
    /\ UNCHANGED <<now, creds, born, sessions, client_session, credential,
                   refresh_session, calls, overwrites>>
    /\ UNCHANGED grantVars
    /\ UNCHANGED otherVars

\* Variant: a refused token request is sent once more
TokenReply_retries_once(c, response) ==
    /\ pc[c] = "token_wait"
    /\ LET old == creds[credential[c]]
           r == credential_from(response, old.grant_type, old.client_id,
                                old.client_secret, now)
       IN IF r.raised
          THEN /\ IF Len(sent[c]) < 2
                  THEN /\ sent' = [sent EXCEPT ![c] = Append(@, sent[c][1])]
                       /\ UNCHANGED <<outcome, pc>>
                  ELSE /\ outcome' = [outcome EXCEPT ![c] = r.exc]
                       /\ pc' = [pc EXCEPT ![c] = "idle"]
                       /\ UNCHANGED sent
               /\ UNCHANGED <<creds, born, sessions, refresh_session>>
          ELSE /\ creds' = Append(creds, r.value)
               /\ born' = Append(born, [at |-> now, ttl |-> r.ttl])
               /\ sessions' = Append(sessions, Session(Len(creds) + 1).value)
               /\ refresh_session' = [refresh_session EXCEPT ![c] = Len(sessions) + 1]
               /\ pc' = [pc EXCEPT ![c] = "assign"]
               /\ UNCHANGED <<outcome, sent>>
    /\ UNCHANGED <<now, client_session, credential, calls, overwrites>>
    /\ UNCHANGED grantVars
    /\ UNCHANGED otherVars

\* Variant: a successful refresh also renews the expiry of the credential that
\* was found stale
TokenReply_renews_held_credential(c, response) ==
    /\ pc[c] = "token_wait"
    /\ LET old == creds[credential[c]]
           r == credential_from(response, old.grant_type, old.client_id,
                                old.client_secret, now)
       IN IF r.raised
          THEN /\ outcome' = [outcome EXCEPT ![c] = r.exc]
               /\ pc' = [pc EXCEPT ![c] = "idle"]
               /\ UNCHANGED <<creds, born, sessions, refresh_session>>
          ELSE /\ creds' = Append([creds EXCEPT ![credential[c]].expires_in_seconds =
                                                   now + r.ttl + 1],
                                  r.value)
               /\ born' = Append(born, [at |-> now, ttl |-> r.ttl])
               /\ sessions' = Append(sessions, Session(Len(creds) + 1).value)
               /\ refresh_session' = [refresh_session EXCEPT ![c] = Len(sessions) + 1]
               /\ pc' = [pc EXCEPT ![c] = "assign"]
               /\ UNCHANGED outcome
    /\ UNCHANGED <<now, client_session, credential, sent, calls, overwrites>>
    /\ UNCHANGED grantVars
    /\ UNCHANGED otherVars

\* Variant: the refreshed credential gets the sandbox prefix put before the
\* secret of the credential it replaces
TokenReply_prefixes_again(c, response) ==
    /\ pc[c] = "token_wait"
    /\ LET old == creds[credential[c]]
           r == credential_from(response, old.grant_type, old.client_id,
                                JoinHyphen(<<SANDBOX_MODE_PREFIX, old.client_secret>>), now)
       IN IF r.raised
          THEN /\ outcome' = [outcome EXCEPT ![c] = r.exc]
               /\ pc' = [pc EXCEPT ![c] = "idle"]
               /\ UNCHANGED <<creds, born, sessions, refresh_session>>
          ELSE /\ creds' = Append(creds, r.value)
               /\ born' = Append(born, [at |-> now, ttl |-> r.ttl])
               /\ sessions' = Append(sessions, Session(Len(creds) + 1).value)
               /\ refresh_session' = [refresh_session EXCEPT ![c] = Len(sessions) + 1]
               /\ pc' = [pc EXCEPT ![c] = "assign"]
               /\ UNCHANGED outcome
    /\ UNCHANGED <<now, client_session, credential, sent, calls, overwrites>>
    /\ UNCHANGED grantVars
    /\ UNCHANGED otherVars

\* Variant: a failed refresh is swallowed and the call goes on with the session
\* the client holds
TokenReply_ignores_failure(c, response) ==
    /\ pc[c] = "token_wait"
    /\ LET old == creds[credential[c]]
           r == credential_from(response, old.grant_type, old.client_id,
                                old.client_secret, now)
       IN IF r.raised
          THEN /\ pc' = [pc EXCEPT ![c] = "request"]
               /\ UNCHANGED <<creds, born, sessions, refresh_session>>
          ELSE /\ creds' = Append(creds, r.value)
               /\ born' = Append(born, [at |-> now, ttl |-> r.ttl])
               /\ sessions' = Append(sessions, Session(Len(creds) + 1).value)
               /\ refresh_session' = [refresh_session EXCEPT ![c] = Len(sessions) + 1]
               /\ pc' = [pc EXCEPT ![c] = "assign"]
    /\ UNCHANGED <<now, client_session, credential, sent, outcome, calls, overwrites>>
    /\ UNCHANGED grantVars
    /\ UNCHANGED otherVars

\* refresh_access_token after the POST: the token endpoint answers, and on
\* success a new credential and a new Session are built
TokenReply(c, response) ==
    /\ pc[c] = "token_wait"
    /\ LET old == creds[credential[c]]
           r == credential_from(response, old.grant_type, old.client_id,
                                old.client_secret, now)
       IN IF r.raised
          THEN /\ outcome' = [outcome EXCEPT ![c] = r.exc]
               /\ pc' = [pc EXCEPT ![c] = "idle"]
               /\ UNCHANGED <<creds, born, sessions, refresh_session>>
          ELSE /\ creds' = Append(creds, r.value)
               /\ born' = Append(born, [at |-> now, ttl |-> r.ttl])
               /\ sessions' = Append(sessions, Session(Len(creds) + 1).value)
               /\ refresh_session' = [refresh_session EXCEPT ![c] = Len(sessions) + 1]
               /\ pc' = [pc EXCEPT ![c] = "assign"]
               /\ UNCHANGED outcome
    /\ UNCHANGED <<now, client_session, credential, sent, calls, overwrites>>
    /\ UNCHANGED grantVars
    /\ UNCHANGED otherVars

\* Variant: the held Session object is updated in place with the new credential
AssignSession_in_place(c) ==
    /\ pc[c] = "assign"
    /\ sessions' = [sessions EXCEPT ![client_session].oauth2credential =
                                        sessions[refresh_session[c]].oauth2credential]
    /\ overwrites' = IF sessions[client_session].oauth2credential # credential[c]
                     THEN overwrites + 1 ELSE overwrites
    /\ pc' = [pc EXCEPT ![c] = "request"]
    /\ UNCHANGED <<now, creds, born, client_session, credential, refresh_session,
                   sent, outcome, calls>>
    /\ UNCHANGED grantVars
    /\ UNCHANGED otherVars

\* refresh_oauth_credential line 349: self.session = refresh_session
AssignSession(c) ==
    /\ pc[c] = "assign"
    /\ client_session' = refresh_session[c]
    /\ overwrites' = IF sessions[client_session].oauth2credential # credential[c]
                     THEN overwrites + 1 ELSE overwrites
    /\ pc' = [pc EXCEPT ![c] = "request"]
    /\ UNCHANGED <<now, creds, born, sessions, credential, refresh_session,
                   sent, outcome, calls>>
    /\ UNCHANGED grantVars
    /\ UNCHANGED otherVars

\* Variant: the Request carries the credential read before the staleness check
SendRequest_with_read_credential(c) ==
    /\ pc[c] = "request"
    /\ sent' = [sent EXCEPT ![c] =
                    Append(@, [kind |-> "domain",
                               authorization |-> <<sessions[client_session].token_type,
                                                   creds[credential[c]].access_token>>,
                               session |-> client_session,
                               credential |-> credential[c],
                               built_at |-> now])]
    /\ pc' = [pc EXCEPT ![c] = "domain_wait"]
    /\ UNCHANGED <<now, creds, born, sessions, client_session, credential,
                   refresh_session, outcome, calls, overwrites>>
    /\ UNCHANGED grantVars
    /\ UNCHANGED otherVars

\* _api_call lines 69-77: build the Request from self.session and execute it
SendRequest(c) ==
    /\ pc[c] = "request"
    /\ sent' = [sent EXCEPT ![c] = Append(@, Request(client_session, now))]
    /\ pc' = [pc EXCEPT ![c] = "domain_wait"]
    /\ UNCHANGED <<now, creds, born, sessions, client_session, credential,
                   refresh_session, outcome, calls, overwrites>>
    /\ UNCHANGED grantVars
    /\ UNCHANGED otherVars

\* _api_call line 77: the resource server answers and error_handler runs
DomainReply(c, response) ==
    /\ pc[c] = "domain_wait"
    /\ LET r == error_handler(response)
       IN outcome' = [outcome EXCEPT ![c] =
                         IF r.raised THEN r.exc ELSE [kind |-> "Response"]]
    /\ pc' = [pc EXCEPT ![c] = "idle"]
    /\ UNCHANGED <<now, creds, born, sessions, client_session, credential,
                   refresh_session, sent, calls, overwrites>>
    /\ UNCHANGED grantVars
    /\ UNCHANGED otherVars

\* revoke_oauth_credential line 353 and revoke_access_token up to the POST
Revoke(c) ==
    /\ client_session # 0
    /\ pc[c] = "idle"
    /\ calls < MaxCalls
    /\ calls' = calls + 1
    /\ credential' = [credential EXCEPT ![c] = sessions[client_session].oauth2credential]
    /\ refresh_session' = [refresh_session EXCEPT ![c] = 0]
    /\ sent' = [sent EXCEPT ![c] =
                    <<RevokeRequest(creds[sessions[client_session].oauth2credential])>>]
    /\ outcome' = [outcome EXCEPT ![c] = [kind |-> "pending"]]
    /\ pc' = [pc EXCEPT ![c] = "revoke_wait"]
    /\ UNCHANGED <<now, creds, born, sessions, client_session, overwrites>>
    /\ UNCHANGED grantVars
    /\ UNCHANGED otherVars

\* Variant: after a successful revoke the held credential is marked expired
RevokeReply_expires_credential(c, response) ==
    /\ pc[c] = "revoke_wait"
    /\ LET r == revoke_access_token(response)
       IN outcome' = [outcome EXCEPT ![c] =
                         IF r.raised THEN r.exc ELSE [kind |-> "Returned"]]
    /\ revoked' = IF response.status_code = 200
                  THEN revoked \cup {sent[c][1].token}
                  ELSE revoked
    /\ creds' = IF response.status_code = 200
                THEN [creds EXCEPT ![credential[c]].expires_in_seconds = 0]
                ELSE creds
    /\ pc' = [pc EXCEPT ![c] = "idle"]
    /\ UNCHANGED <<now, born, sessions, client_session, credential,
                   refresh_session, sent, calls, overwrites>>
    /\ UNCHANGED grantVars
    /\ UNCHANGED <<storage, arg, result>>
    /\ UNCHANGED grantHistory

\* revoke_access_token after the POST: the revoke endpoint answers
RevokeReply(c, response) ==
    /\ pc[c] = "revoke_wait"
    /\ LET r == revoke_access_token(response)
       IN outcome' = [outcome EXCEPT ![c] =
                         IF r.raised THEN r.exc ELSE [kind |-> "Returned"]]
    /\ revoked' = IF response.status_code = 200
                  THEN revoked \cup {sent[c][1].token}
                  ELSE revoked
    /\ pc' = [pc EXCEPT ![c] = "idle"]
    /\ UNCHANGED <<now, creds, born, sessions, client_session, credential,
                   refresh_session, sent, calls, overwrites>>
    /\ UNCHANGED grantVars
    /\ UNCHANGED <<storage, arg, result>>
    /\ UNCHANGED grantHistory

-----------------------------------------------------------------------------
(* examples: the credential storage file *)

\* authorization_code_grant_flow lines 74-89: the credential of the Session
\* get_session returned is written to the storage file and a client is built
\* around that Session.  written_at and written_from are history.
GrantFlowClient ==
    /\ gs.outcome.kind = "Session"
    /\ client_session = 0
    /\ LET session == gs.outcome.session
           cred == creds[sessions[session].oauth2credential]
       IN /\ \E scopes \in Perms(cred.scopes) :
                storage' = [kind |-> "file",
                            credential_data |->
                                [client_id |-> cred.client_id,
                                 access_token |-> cred.access_token,
                                 expires_in_seconds |-> cred.expires_in_seconds,
                                 scopes |-> scopes,
                                 grant_type |-> cred.grant_type,
                                 client_secret |-> cred.client_secret,
                                 refresh_token |-> cred.refresh_token],
                            written_at |-> now,
                            written_from |-> sessions[session].oauth2credential,
                            loaded_as |-> 0]
          /\ client_session' = session
    /\ UNCHANGED <<now, grant, gs, creds, born, sessions>>
    /\ UNCHANGED callerVars
    /\ UNCHANGED <<revoked, arg, result>>
    /\ UNCHANGED grantHistory

\* import_oauth2_credentials and create_lyft_client in a later run of the
\* program: a credential is built from the stored fields, and a client around
\* a new Session holding it.  loaded_as is history.
LoadClient ==
    /\ storage.kind = "file"
    /\ storage.loaded_as = 0
    /\ \A c \in DOMAIN pc : pc[c] = "idle"
    /\ LET credentials == storage.credential_data
       IN /\ creds' = Append(creds, OAuth2Credential(credentials.client_id,
                                                     credentials.access_token,
                                                     credentials.expires_in_seconds,
                                                     credentials.scopes,
                                                     credentials.grant_type,
                                                     credentials.client_secret,
                                                     credentials.refresh_token,
                                                     now))
          /\ born' = Append(born, [at |-> now, ttl |-> credentials.expires_in_seconds])
    /\ sessions' = Append(sessions, Session(Len(creds) + 1).value)
    /\ client_session' = Len(sessions) + 1
    /\ storage' = [storage EXCEPT !.loaded_as = Len(creds) + 1]
    /\ UNCHANGED <<now, grant, gs>>
    /\ UNCHANGED callerVars
    /\ UNCHANGED <<revoked, arg, result>>
    /\ UNCHANGED grantHistory

-----------------------------------------------------------------------------
(* Functions of one HTTP response, applied on their own *)

ReasonOf(status_code) ==
    CASE status_code = 200 -> "OK"
      [] status_code = 404 -> "Not Found"
      [] status_code = 422 -> "Unprocessable Entity"
      [] status_code = 500 -> "Internal Server Error"
      [] status_code = 503 -> "Service Unavailable"

\* entries of an error_detail array
DictEntry(items) == [is_dict |-> TRUE, items |-> items]

StringEntry == [is_dict |-> FALSE, items |-> <<>>]

AppliedBodies ==
    {[error |-> "invalid_request",
      error_detail |-> <<DictEntry(<<<<"start_latitude", "is required">>>>)>>],
     [error |-> "invalid_request",
      error_detail |-> <<DictEntry(<<<<"start_lat", "is required">>>>),
                         StringEntry,
                         DictEntry(<<<<"start_lng", "is required">>, <<"end_lng", "is invalid">>>>)>>],
     [error |-> "invalid_request", error_detail |-> <<>>],
     [error |-> "invalid_request",
      error_detail |-> <<DictEntry(<<<<"ride_id", "is unknown">>>>)>>,
      error_description |-> "no such ride"],
     [error |-> "server_error", error_description |-> "overloaded"],
     [error |-> "server_error"],
     [error |-> "server_error", error_description |-> None],
     [error |-> "invalid_request", error_description |-> ""],
     [error |-> "", error_description |-> "overloaded"],
     [error_description |-> "overloaded"],
     [error_detail |-> <<DictEntry(<<<<"start_latitude", "is required">>>>)>>],
     [message |-> "gone"],
     NonJsonBody,
     [access_token |-> "at1", expires_in |-> 1, scope |-> <<"public", "profile">>],
     [access_token |-> "at1", expires_in |-> 0, scope |-> <<"public">>,
      refresh_token |-> "rt1"],
     [access_token |-> "at1", expires_in |-> 1],
     [access_token |-> "at1", scope |-> <<"public">>]}

AppliedResponses ==
    {Response(status_code, ReasonOf(status_code), content_type, body) :
        status_code \in {200, 404, 422, 500, 503},
        content_type \in {"application/json", "application/json; charset=utf-8",
                          "text/html", None},
        body \in AppliedBodies}

InitApplied ==
    /\ now \in StartTime..MaxTime
    /\ grant = AuthorizationCodeGrant(ClientId, ClientSecret, AppScopes, TRUE, "v1", <<>>)
    /\ grant_args = GrantArgs("AuthorizationCodeGrant", ClientSecret, TRUE, "v1", <<>>)
    /\ gs = IdleGetSession
    /\ creds = <<>>
    /\ born = <<>>
    /\ sessions = <<>>
    /\ client_session = 0
    /\ pc = [c \in {1} |-> "idle"]
    /\ credential = [c \in {1} |-> 0]
    /\ refresh_session = [c \in {1} |-> 0]
    /\ sent = [c \in {1} |-> <<>>]
    /\ outcome = [c \in {1} |-> NoCall]
    /\ calls = 0
    /\ overwrites = 0
    /\ revoked = {}
    /\ storage = NoStorage
    /\ arg \in AppliedResponses
    /\ result = NoResult
    /\ authorization_url = NoUrl
    /\ accepted = <<>>

appliedFrame ==
    <<now, grant, gs, creds, born, sessions, client_session, pc, credential,
      refresh_session, sent, outcome, calls, overwrites, revoked, storage, arg,
      grant_args, authorization_url, accepted>>

Apply_error_handler ==
    /\ result.fn = "none"
    /\ result' = [fn |-> "error_handler", out |-> error_handler(arg)]
    /\ UNCHANGED appliedFrame

Apply_ClientError ==
    /\ result.fn = "none"
    /\ result' = [fn |-> "ClientError",
                  out |-> [raised |-> TRUE, exc |-> ClientError(arg, <<None>>)]]
    /\ UNCHANGED appliedFrame

Apply_ServerError ==
    /\ result.fn = "none"
    /\ result' = [fn |-> "ServerError",
                  out |-> [raised |-> TRUE, exc |-> ServerError(arg)]]
    /\ UNCHANGED appliedFrame

Apply_make_from_response ==
    /\ result.fn = "none"
    /\ \E grant_type \in {AUTHORIZATION_CODE_GRANT, CLIENT_CREDENTIAL_GRANT} :
          result' = [fn |-> "make_from_response",
                     grant_type |-> grant_type,
                     out |-> make_from_response(arg, grant_type, grant.client_id,
                                                grant.client_secret, now)]
    /\ UNCHANGED appliedFrame

Apply_request_access_token ==
    /\ result.fn = "none"
    /\ result' = [fn |-> "request_access_token", out |-> request_access_token(arg)]
    /\ UNCHANGED appliedFrame

Apply_revoke_access_token ==
    /\ result.fn = "none"
    /\ result' = [fn |-> "revoke_access_token", out |-> revoke_access_token(arg)]
    /\ UNCHANGED appliedFrame

NextApplied ==
    \/ Apply_error_handler
    \/ Apply_ClientError
    \/ Apply_ServerError
    \/ Apply_make_from_response
    \/ Apply_request_access_token
    \/ Apply_revoke_access_token

-----------------------------------------------------------------------------
(* Specifications *)

\* Any number of callers dispatching, the servers answering from TR and DR
Dispatch(TR, DR) ==
    \/ Tick
    \/ \E c \in Callers : ApiCall(c)
    \/ \E c \in Callers : CheckStale(c)
    \/ \E c \in Callers, response \in TR : TokenReply(c, response)
    \/ \E c \in Callers : AssignSession(c)
    \/ \E c \in Callers : SendRequest(c)
    \/ \E c \in Callers, response \in DR : DomainReply(c, response)

Next ==
    \/ Dispatch(TokenResponses, DomainResponses)
    \/ \E c \in Callers : Revoke(c)
    \/ \E c \in Callers, response \in RevokeResponses : RevokeReply(c, response)

\* The shared client is studied with well-formed token answers and one refusal
SharedTokenResponses ==
    {r \in TokenResponses :
        \/ /\ r.status_code = 200
           /\ DOMAIN r.body = {"access_token", "expires_in", "scope", "refresh_token"}
           /\ r.body.access_token = "at1"
        \/ r.status_code = 401 /\ DOMAIN r.body = {"error"}}

SharedDomainResponses == {r \in DomainResponses : r.status_code \in {200, 400}}

NextShared == Dispatch(SharedTokenResponses, SharedDomainResponses)

NextGrant ==
    \/ Tick
    \/ GetAuthorizationUrl
    \/ /\ gs.outcome.kind = "none"
       /\ \E redirect_url \in RedirectUrls : GetSession(redirect_url)
    \/ \E response \in TokenResponses : GetSessionReply(response)
    \/ GetSessionDone

\* A grant object of either class has been constructed; there is no client yet
InitGrants ==
    \/ InitGrant
    \/ /\ now = StartTime
       /\ \E is_sandbox_mode \in BOOLEAN :
             /\ grant = ClientCredentialGrant(ClientId, ClientSecret, AppScopes,
                                              is_sandbox_mode)
             /\ grant_args = GrantArgs("ClientCredentialGrant", ClientSecret,
                                       is_sandbox_mode, None, <<>>)
       /\ gs = IdleGetSession
       /\ creds = <<>>
       /\ born = <<>>
       /\ sessions = <<>>
       /\ client_session = 0
       /\ InitCallers({1})

\* The operations of the grant object, by its class
NextGrants ==
    \/ Tick
    \/ /\ grant_args.class = "AuthorizationCodeGrant"
       /\ gs.outcome.kind = "none"
       /\ \E redirect_url \in RedirectUrls : GetSession(redirect_url)
    \/ /\ grant_args.class = "AuthorizationCodeGrant"
       /\ \E response \in TokenResponses : GetSessionReply(response)
    \/ /\ grant_args.class = "ClientCredentialGrant"
       /\ ClientCredentialGetSession
    \/ /\ grant_args.class = "ClientCredentialGrant"
       /\ \E response \in TokenResponses : ClientCredentialGetSessionReply(response)
    \/ GetSessionDone

\* From the authorization URL to the calls: get_authorization_url (line 59 of
\* the flow), then get_session on the redirect URL the user pastes, the storage
\* file written and a client built, the client's calls and revocations, and a
\* client built from the storage file in a later run
NextLifecycle ==
    \/ /\ authorization_url = NoUrl
       /\ GetAuthorizationUrl
    \/ /\ authorization_url # NoUrl
       /\ gs.outcome.kind = "none"
       /\ \E redirect_url \in RedirectUrls : GetSession(redirect_url)
    \/ \E response \in TokenResponses : GetSessionReply(response)
    \/ GrantFlowClient
    \/ LoadClient
    \/ Dispatch(SharedTokenResponses, SharedDomainResponses)
    \/ \E c \in Callers : Revoke(c)
    \/ \E c \in Callers, response \in RevokeResponses : RevokeReply(c, response)

\* A LyftRidesClient driven by a single caller
Spec == Init /\ [][Next]_vars

\* A LyftRidesClient holding a stale credential, with one caller or shared by
\* two callers without synchronization
SpecShared == InitShared /\ [][NextShared]_vars

\* An AuthorizationCodeGrant taking redirect URLs
SpecGrant == InitGrant /\ [][NextGrant]_vars

\* A grant object of either class asked for sessions
SpecGrants == InitGrants /\ [][NextGrants]_vars

\* The example programs from the redirect URL to the client's calls
SpecLifecycle == InitGrant /\ [][NextLifecycle]_vars

\* The functions of one HTTP response, each applied once to a response
SpecApplied == InitApplied /\ [][NextApplied]_vars

-----------------------------------------------------------------------------
(* Properties *)

TokenCount(log) == Cardinality({i \in DOMAIN log : log[i].kind = "token"})

DomainCount(log) == Cardinality({i \in DOMAIN log : log[i].kind = "domain"})

SupportedGrant(cred) ==
    cred.grant_type \in {AUTHORIZATION_CODE_GRANT, CLIENT_CREDENTIAL_GRANT}

Expiry(i) == born[i].at + born[i].ttl

\* C1: every domain request _api_call sends is built while the credential whose
\* access token it carries is not stale (single caller, expires_in >= 0).
C1_DomainRequestCredentialNotStale ==
    \A c \in Callers : \A i \in DOMAIN sent[c] :
        sent[c][i].kind = "domain" =>
            ~is_stale(creds[sent[c][i].credential], sent[c][i].built_at)

\* caller c's current or last operation is a dispatch (_api_call), not a revoke
Dispatching(c) == \A i \in DOMAIN sent[c] : sent[c][i].kind # "revoke"

FirstCallOnZeroLifetime(c) ==
    /\ born[1].ttl = 0
    /\ calls = 1
    /\ Dispatching(c)
    /\ pc[c] # "check"

\* C2 as claimed: with a credential constructed with expires_in_seconds = 0, the
\* first _api_call issues exactly one token request, ahead of any domain request.
C2_FirstCallRefreshesOnce ==
    \A c \in Callers :
        FirstCallOnZeroLifetime(c) =>
            /\ TokenCount(sent[c]) = 1
            /\ sent[c][1].kind = "token"

\* C2 as amended: the same for a credential whose grant type is Authorization-Code
\* or Client-Credentials; with any other grant type the first call sends no
\* request at all and ends with LyftIllegalState.
C2_FirstCallRefreshesOnceIfSupported ==
    \A c \in Callers :
        FirstCallOnZeroLifetime(c) =>
            IF SupportedGrant(creds[1])
            THEN /\ TokenCount(sent[c]) = 1
                 /\ sent[c][1].kind = "token"
                 /\ \A i \in DOMAIN sent[c] : sent[c][i].kind = "domain" => i = 2
            ELSE /\ sent[c] = <<>>
                 /\ pc[c] = "idle"
                 /\ outcome[c].kind = "LyftIllegalState"

C2_Witness ==
    \E c \in Callers :
        /\ FirstCallOnZeroLifetime(c)
        /\ pc[c] = "domain_wait"
        /\ Len(sent[c]) = 2
        /\ sent[c][2].kind = "domain"

\* C3 as claimed: for every expires_in_seconds >= 0 a credential is not stale at
\* its construction time and is stale at every time at or past its expiry.
C3_FreshThenStale ==
    \A i \in DOMAIN creds :
        /\ now = born[i].at => ~is_stale(creds[i], now)
        /\ now >= Expiry(i) => is_stale(creds[i], now)

\* C3 as amended: a credential constructed with expires_in_seconds >= 1 is not
\* stale at its construction time; one constructed with expires_in_seconds >= 0
\* is stale at every time at or past its expiry, so with 0 it is stale at once.
C3_FreshIfPositiveThenStale ==
    \A i \in DOMAIN creds :
        /\ (born[i].ttl >= 1 /\ now = born[i].at) => ~is_stale(creds[i], now)
        /\ now >= Expiry(i) => is_stale(creds[i], now)
        /\ (born[i].ttl = 0 /\ now = born[i].at) => is_stale(creds[i], now)

C3_Witness ==
    \E i, j \in DOMAIN creds :
        /\ born[i].ttl >= 1 /\ now > born[i].at /\ now >= Expiry(i)
        /\ born[j].ttl >= 1 /\ now = born[j].at

\* C4: is_stale() is true exactly when now >= construction time +
\* expires_in_seconds: stale with zero remaining lifetime, not stale with one
\* second or more remaining, no grace margin.
C4_StaleIffExpiryReached ==
    \A i \in DOMAIN creds :
        is_stale(creds[i], now) <=> now >= Expiry(i)

C4_Witness ==
    \E i, j \in DOMAIN creds :
        /\ born[i].ttl >= 1 /\ now = Expiry(i)
        /\ now = Expiry(j) - 1

GetSessionStarted == gs.outcome.kind # "none"

HasParam(k) == k \in DOMAIN gs.query_params

StateMatches == HasParam("state") /\ gs.query_params.state = grant.state_token

WellFormedTokenResponse(r) ==
    /\ r.status_code = 200
    /\ {"access_token", "expires_in", "scope"} \subseteq DOMAIN r.body

\* C5: get_session raises LyftIllegalState when the redirect's state parameter is
\* missing or differs from the grant's state token, and then no token request is
\* sent and no Session is built; with a matching state, a code, no error and a
\* 200 token response it returns a Session.
C5_CsrfStateChecked ==
    GetSessionStarted =>
        /\ ~StateMatches =>
              /\ gs.outcome.kind = "LyftIllegalState"
              /\ gs.sent = <<>>
              /\ gs.replies = <<>>
              /\ sessions = <<>>
              /\ creds = <<>>
        /\ ( /\ StateMatches /\ HasParam("code") /\ ~HasParam("error")
             /\ gs.replies # <<>>
             /\ gs.replies[1].status_code = 200 ) =>
              /\ gs.outcome.kind = "Session"
              /\ gs.outcome.session \in DOMAIN sessions
              /\ sessions[gs.outcome.session].oauth2credential \in DOMAIN creds
        /\ gs.outcome.kind \in {"pending", "Session"} => StateMatches

C5_Witness ==
    /\ GetSessionStarted
    /\ HasParam("state") /\ gs.query_params.state # grant.state_token
    /\ HasParam("code") /\ ~HasParam("error")
    /\ gs.outcome.kind = "LyftIllegalState"

\* C6: with a matching state, get_session raises LyftIllegalState when the
\* extracted query parameters hold both code and error and when they hold
\* neither; verification passes only with exactly one of the two.
C6_CodeXorError ==
    (GetSessionStarted /\ StateMatches) =>
        /\ (HasParam("code") <=> HasParam("error")) =>
              /\ gs.outcome.kind = "LyftIllegalState"
              /\ gs.sent = <<>>
        /\ gs.sent # <<>> => (HasParam("code") /\ ~HasParam("error"))

C6_Witness ==
    /\ GetSessionStarted /\ StateMatches
    /\ HasParam("code") /\ HasParam("error")
    /\ gs.outcome.kind = "LyftIllegalState"

\* C7: with a matching state, an error and no code, get_session raises
\* LyftIllegalState whose message is the error text and sends no token request.
C7_ErrorSurfaced ==
    (GetSessionStarted /\ StateMatches /\ HasParam("error") /\ ~HasParam("code")) =>
        /\ gs.outcome = LyftIllegalState(<<gs.query_params.error>>)
        /\ gs.sent = <<>>
        /\ gs.replies = <<>>

C7_Witness ==
    /\ GetSessionStarted /\ StateMatches
    /\ HasParam("error") /\ ~HasParam("code")
    /\ gs.outcome.kind = "LyftIllegalState"

\* C8: refresh_access_token dispatches on the grant type: Authorization-Code
\* sends one request with grant_type refresh_token, the credential's
\* refresh_token and no scope; Client-Credentials sends one request with
\* grant_type client_credentials, the client secret and the scopes and no
\* refresh_token; any other grant type raises LyftIllegalState and sends nothing.
C8_RefreshDispatch ==
    \A c \in Callers :
        (credential[c] # 0 /\ Dispatching(c)) =>
            LET cred == creds[credential[c]]
                log == sent[c]
            IN /\ pc[c] \in {"token_wait", "assign"} =>
                     /\ Len(log) = 1
                     /\ log[1].kind = "token"
               /\ \A i \in DOMAIN log : log[i].kind = "token" =>
                     /\ i = 1
                     /\ log[i].client_id = cred.client_id
                     /\ log[i].code = None
                     /\ IF cred.grant_type = AUTHORIZATION_CODE_GRANT
                        THEN /\ log[i].grant_type = REFRESH_TOKEN
                             /\ log[i].refresh_token = cred.refresh_token
                             /\ log[i].scope = None
                        ELSE /\ cred.grant_type = CLIENT_CREDENTIAL_GRANT
                             /\ log[i].grant_type = CLIENT_CREDENTIAL_GRANT
                             /\ log[i].client_secret = cred.client_secret
                             /\ SeqToSet(log[i].scope) = cred.scopes
                             /\ Len(log[i].scope) = Cardinality(cred.scopes)
                             /\ log[i].refresh_token = None
               /\ (~SupportedGrant(cred) /\ pc[c] # "check"
                      /\ is_stale(cred, born[credential[c]].at)) =>
                     /\ log = <<>>
                     /\ pc[c] = "idle"
                     /\ outcome[c].kind = "LyftIllegalState"

C8_Witness ==
    \E c \in Callers :
        /\ pc[c] = "token_wait"
        /\ creds[credential[c]].grant_type = CLIENT_CREDENTIAL_GRANT
        /\ sent[c][1].grant_type = CLIENT_CREDENTIAL_GRANT

\* C9: a refresh never mutates an existing credential or Session: every step
\* leaves the objects already on the heap as they are, a refresh adds a new
\* Session holding a new credential, and the client's session changes only by
\* its reference being replaced with such a Session.
C9_RefreshReplacesNeverMutates ==
    [][ /\ \A i \in DOMAIN creds : i \in DOMAIN creds' /\ creds'[i] = creds[i]
        /\ \A i \in DOMAIN sessions : i \in DOMAIN sessions' /\ sessions'[i] = sessions[i]
        /\ \A i \in DOMAIN sessions' \ DOMAIN sessions :
               sessions'[i].oauth2credential \in DOMAIN creds' \ DOMAIN creds
        /\ client_session' # client_session =>
               /\ client_session' \in DOMAIN sessions
               /\ sessions[client_session'].oauth2credential #
                      sessions[client_session].oauth2credential
               /\ \E c \in Callers : client_session' = refresh_session[c]
      ]_vars

C9_Witness ==
    /\ client_session = 2
    /\ sessions[1].oauth2credential = 1
    /\ sessions[2].oauth2credential = 2
    /\ creds[1].access_token # creds[2].access_token

\* C10: with a single caller each dispatch issues at most one refresh request and
\* no refreshed session is overwritten by a refresh based on an older session;
\* with two unsynchronized callers there is an interleaving in which both see the
\* same stale credential, both issue a refresh and one refreshed session is
\* overwritten by the other (the witness).
C10_SingleCallerRefreshesOnce ==
    /\ \A c \in Callers : TokenCount(sent[c]) <= 1
    /\ Cardinality(Callers) = 1 => overwrites = 0
    /\ overwrites > 0 => Len(sessions) >= 3

C10_Witness ==
    /\ Callers = {1, 2}
    /\ credential[1] # 0
    /\ credential[1] = credential[2]
    /\ is_stale(creds[credential[1]], born[credential[1]].at)
    /\ TokenCount(sent[1]) = 1
    /\ TokenCount(sent[2]) = 1
    /\ refresh_session[1] # 0
    /\ refresh_session[2] # 0
    /\ refresh_session[1] # refresh_session[2]
    /\ overwrites = 1
    /\ client_session \in {refresh_session[1], refresh_session[2]}

\* C11: every Session holds a credential: Session() without one raises
\* LyftIllegalState, and after get_session, the client's construction, a load
\* from storage, a dispatch with or without refresh, or a revoke, every Session
\* on the heap, the client's one included, refers to a credential object.
C11_SessionHoldsCredential ==
    /\ Session(0).raised
    /\ Session(0).exc.kind = "LyftIllegalState"
    /\ \A i \in DOMAIN sessions : sessions[i].oauth2credential \in DOMAIN creds
    /\ client_session # 0 => client_session \in DOMAIN sessions
    /\ gs.outcome.kind = "Session" => gs.outcome.session \in DOMAIN sessions
    /\ \A c \in Callers : refresh_session[c] # 0 => refresh_session[c] \in DOMAIN sessions

C11_Witness ==
    /\ gs.outcome.kind = "Session"
    /\ storage.kind = "file"
    /\ storage.loaded_as = 2
    /\ revoked # {}
    /\ client_session = 3
    /\ sessions[3].oauth2credential = 3
    /\ \E c \in Callers : refresh_session[c] = 3 /\ pc[c] = "domain_wait"

\* C12: a credential's expiry is the absolute time construction time +
\* expires_in_seconds, and no step (staleness check, dispatch, refresh of the
\* client that holds it, revoke, the clock) changes the expiry of a credential
\* that exists.
C12_ExpiryFixedAtConstruction ==
    /\ [](\A i \in DOMAIN creds : creds[i].expires_in_seconds = born[i].at + born[i].ttl)
    /\ [][\A i \in DOMAIN creds :
              /\ i \in DOMAIN creds'
              /\ creds'[i].expires_in_seconds = creds[i].expires_in_seconds]_vars

C12_Witness ==
    /\ Len(creds) >= 2
    /\ revoked # {}
    /\ now > born[1].at
    /\ born[1].ttl > 0
    /\ is_stale(creds[1], now)
    /\ client_session = 2

\* C13: once a credential has been written to the storage file and a credential
\* built from that file, the two have the same access token, client id, scopes,
\* grant type and refresh token, and the loaded one's remaining lifetime at load
\* time is within one second of the written one's remaining lifetime at the
\* time it was written.
C13_RoundTrip ==
    (storage.kind = "file" /\ storage.loaded_as # 0) =>
        LET original == creds[storage.written_from]
            loaded == creds[storage.loaded_as]
            remaining_at_save == original.expires_in_seconds - storage.written_at
            remaining_at_load == loaded.expires_in_seconds - born[storage.loaded_as].at
        IN /\ loaded.access_token = original.access_token
           /\ loaded.client_id = original.client_id
           /\ SeqToSet(loaded.scopes) = original.scopes
           /\ loaded.grant_type = original.grant_type
           /\ loaded.refresh_token = original.refresh_token
           /\ remaining_at_load - remaining_at_save \in -1..1

IsJsonContent(response) ==
    /\ response.content_type # None
    /\ Contains("application/json", response.content_type)

HasJsonBody(response) == ~json(response).raised

Adaptable(response) ==
    /\ IsJsonContent(response)
    /\ HasJsonBody(response)
    /\ Truthy(Get(response.body, "error"))

\* C14: request_access_token returns the response only for status 200 and
\* revoke_access_token returns normally only for status 200; for every other
\* status, whatever the body and the content type, each raises a ClientError
\* whose message carries the reason phrase.
C14_Non200IsClientError ==
    result.fn \in {"request_access_token", "revoke_access_token"} =>
        IF arg.status_code = 200
        THEN ~result.out.raised
        ELSE /\ result.out.raised
             /\ result.out.exc.kind = "ClientError"
             /\ arg.reason \in SeqToSet(result.out.exc.message)

\* C15: make_from_response raises ClientError when the status is not 200; on
\* 200 it builds a credential with the body's access_token, expiry now +
\* expires_in, the set of words of the body's scope, the body's refresh_token
\* or none, and the grant type, client id and client secret it was given.
C15_MakeFromResponse ==
    result.fn = "make_from_response" =>
        IF arg.status_code # 200
        THEN /\ result.out.raised
             /\ result.out.exc.kind = "ClientError"
        ELSE /\ ~result.out.raised
             /\ result.out.value.access_token = arg.body.access_token
             /\ result.out.value.expires_in_seconds = now + arg.body.expires_in
             /\ result.out.value.scopes = SeqToSet(arg.body.scope)
             /\ result.out.value.refresh_token = Get(arg.body, "refresh_token")
             /\ result.out.value.grant_type = result.grant_type
             /\ result.out.value.client_id = grant.client_id
             /\ result.out.value.client_secret = grant.client_secret

RevokeCount(log) == Cardinality({i \in DOMAIN log : log[i].kind = "revoke"})

IsFailure(o) == o.kind \notin {"none", "pending", "Response", "Returned", "Session"}

\* C16: nothing is retried: one dispatch sends at most one token request and at
\* most one domain request, one revoke exactly one revoke request and nothing
\* else, one get_session at most one token request; and once an operation has
\* raised, it sends nothing more.
C16_NoRetry ==
    /\ [](/\ \A c \in Callers :
                /\ TokenCount(sent[c]) <= 1
                /\ DomainCount(sent[c]) <= 1
                /\ RevokeCount(sent[c]) <= 1
                /\ RevokeCount(sent[c]) = 1 => Len(sent[c]) = 1
                /\ Len(sent[c]) <= 2
                /\ IsFailure(outcome[c]) => pc[c] = "idle"
           /\ Len(gs.sent) <= 1)
    /\ [][/\ \A c \in Callers :
                (IsFailure(outcome[c]) /\ calls' = calls) => sent'[c] = sent[c]
          /\ IsFailure(gs.outcome) => gs'.sent = gs.sent]_vars

C16_Witness ==
    /\ gs.outcome.kind = "Session"
    /\ Len(gs.sent) = 1
    /\ calls = MaxCalls
    /\ \E c \in Callers :
          /\ pc[c] = "idle"
          /\ outcome[c].kind = "ClientError"
          /\ TokenCount(sent[c]) = 1
          /\ Len(sent[c]) = 1

\* C17: a revoke, accepted or refused, leaves the client's session, every
\* Session and every credential as they were; and a dispatch that finds the
\* held credential not stale sends no token request and sends its domain
\* request with the held access token, also when that token has been revoked.
C17_RevokeLeavesSession ==
    /\ [][\A c \in Callers :
              (pc[c] = "revoke_wait" \/ pc'[c] = "revoke_wait") =>
                  /\ client_session' = client_session
                  /\ sessions' = sessions
                  /\ creds' = creds]_vars
    /\ [](\A c \in Callers :
              (refresh_session[c] = 0 /\ pc[c] \in {"request", "domain_wait"}) =>
                  /\ sessions[client_session].oauth2credential = credential[c]
                  /\ TokenCount(sent[c]) = 0
                  /\ pc[c] = "domain_wait" =>
                         /\ Len(sent[c]) = 1
                         /\ sent[c][1].kind = "domain"
                         /\ sent[c][1].authorization =
                                <<OAUTH_TOKEN_TYPE, creds[credential[c]].access_token>>)

C17_Witness ==
    \E c \in Callers :
        /\ pc[c] = "domain_wait"
        /\ refresh_session[c] = 0
        /\ client_session = 1
        /\ credential[c] = 1
        /\ creds[1].access_token \in revoked
        /\ sent[c][1].authorization[2] \in revoked

\* the dict entries of an error_detail array, in array order
DictEntries(error_detail) == SelectSeq(error_detail, LAMBDA entry : entry.is_dict)

RECURSIVE PairsBefore(_, _)
\* the number of key/value pairs in the first i - 1 entries of D
PairsBefore(D, i) == IF i <= 1 THEN 0 ELSE PairsBefore(D, i - 1) + Len(D[i - 1].items)

ClientErrorCase ==
    /\ result.fn \in {"error_handler", "ClientError"}
    /\ arg.status_code \in 400..499
    /\ Adaptable(arg)
    /\ "error_detail" \in DOMAIN arg.body

\* C18 as claimed: a 4xx JSON response with `error` and an `error_detail` array
\* gives a ClientError with meta equal to `error` and exactly one ErrorDetails
\* per array entry that is a mapping, in array order.
C18_OneDetailPerEntry ==
    ClientErrorCase =>
        LET D == DictEntries(arg.body.error_detail)
        IN /\ result.out.raised
           /\ result.out.exc.kind = "ClientError"
           /\ result.out.exc.meta = arg.body.error
           /\ Len(result.out.exc.errors) = Len(D)

\* C18 as amended: such a response gives a ClientError with meta equal to
\* `error` and one ErrorDetails(parameter, title) per key/value pair of every
\* array entry that is a mapping (an entry with n pairs gives n), in array
\* order and within an entry in the mapping's order; the whole list is kept.
C18_OneDetailPerPair ==
    ClientErrorCase =>
        LET D == DictEntries(arg.body.error_detail)
            errors == result.out.exc.errors
        IN /\ result.out.raised
           /\ result.out.exc.kind = "ClientError"
           /\ result.out.exc.meta = arg.body.error
           /\ Len(errors) = PairsBefore(D, Len(D) + 1)
           /\ \A i \in DOMAIN D : \A j \in DOMAIN D[i].items :
                  errors[PairsBefore(D, i) + j] =
                      ErrorDetails(D[i].items[j][1], D[i].items[j][2])
           /\ (arg.body.error_detail = <<DictEntry(<<<<"start_latitude", "is required">>>>)>>) =>
                  errors = <<ErrorDetails("start_latitude", "is required")>>

C18_Witness ==
    /\ result.fn = "error_handler"
    /\ arg.status_code = 422
    /\ Adaptable(arg)
    /\ "error_detail" \in DOMAIN arg.body
    /\ Len(arg.body.error_detail) = 3
    /\ result.out.exc.kind = "ClientError"
    /\ Len(result.out.exc.errors) = 3
    /\ result.out.exc.errors[3] = ErrorDetails("end_lng", "is invalid")

\* C19: a ServerError built from a 5xx JSON response with `error` carries the
\* first entry of the adapted detail list (the list a ClientError built from
\* the same response keeps), or none when that list is empty; with only
\* `error_description` in the body its detail is that string.
C19_ServerErrorSingleDetail ==
    (/\ result.fn \in {"error_handler", "ServerError"}
     /\ arg.status_code \in 500..599
     /\ Adaptable(arg)) =>
        LET list == ClientError(arg, DefaultClientMessage).errors
        IN /\ result.out.raised
           /\ result.out.exc.kind = "ServerError"
           /\ result.out.exc.meta = arg.body.error
           /\ list = <<>> => result.out.exc.error = None
           /\ list # <<>> => result.out.exc.error = list[1]
           /\ ("error_description" \in DOMAIN arg.body /\ "error_detail" \notin DOMAIN arg.body) =>
                  result.out.exc.error = arg.body.error_description

C19_Witness ==
    /\ result.fn = "error_handler"
    /\ arg.status_code = 503
    /\ arg.content_type = "application/json"
    /\ arg.body = [error |-> "server_error", error_description |-> "overloaded"]
    /\ result.out.exc.kind = "ServerError"
    /\ result.out.exc.error = "overloaded"

\* C20: for every 4xx or 5xx response error_handler handles, if the content
\* type is not JSON or the JSON body has no top-level `error`, error_handler
\* raises UnknownHttpError carrying the response.
C20_UnadaptableIsUnknown ==
    (/\ result.fn = "error_handler"
     /\ arg.status_code \in 400..599
     /\ ~IsJsonContent(arg) \/ "error" \notin DOMAIN arg.body) =>
        /\ result.out.raised
        /\ result.out.exc.kind = "UnknownHttpError"
        /\ result.out.exc.response = arg

\* C21: for every 4xx response whose JSON body has a top-level `error`,
\* error_handler raises ClientError, with zero details when the body has
\* neither `error_description` nor `error_detail`; for every 5xx response with
\* such a body it raises ServerError.
C21_ErrorBodyClassified ==
    (/\ result.fn = "error_handler"
     /\ arg.status_code \in 400..599
     /\ Adaptable(arg)) =>
        /\ result.out.raised
        /\ result.out.exc.kind =
              IF arg.status_code <= 499 THEN "ClientError" ELSE "ServerError"
        /\ (/\ arg.status_code <= 499
            /\ DOMAIN arg.body \cap {"error_description", "error_detail"} = {}) =>
               result.out.exc.errors = <<>>

\* the exception types of the library's error taxonomy
LibraryErrors == {"ClientError", "ServerError", "UnknownHttpError", "LyftIllegalState"}

\* C22: every failure get_session, a dispatch (refresh and error_handler
\* included) or revoke_oauth_credential raises, whatever the status, the
\* content type and the fields of the body answered, is a ClientError, a
\* ServerError, an UnknownHttpError or a LyftIllegalState.
C22_OnlyLibraryErrors ==
    /\ IsFailure(gs.outcome) => gs.outcome.kind \in LibraryErrors
    /\ \A c \in Callers : IsFailure(outcome[c]) => outcome[c].kind \in LibraryErrors

\* the value of the `state` parameter of the last authorization URL
UrlState == authorization_url.query[2][2]

AlphabetChars == SeqToSet(ascii_letters) \cup SeqToSet(digits)

\* the characters the random generator yielded for the grant's state token
DrawnChars ==
    [i \in DOMAIN grant_args.random_draws |->
        (ascii_letters \o digits)[grant_args.random_draws[i]]]

CsrfErrorRaised ==
    /\ gs.outcome.kind = "LyftIllegalState"
    /\ gs.outcome.message[1] = "CSRF Error. Expected {}, got {}"

\* C23: the grant's state token is set once, at construction: it is the value
\* supplied, or else a generated string of 32 ASCII letters and digits; it is
\* never None; get_authorization_url and get_session calls, however many,
\* leave it unchanged; and the `state` of the authorization URL is the value
\* get_session compares the redirect's state against.
C23_StateTokenFixed ==
    /\ [](/\ grant.state_token # None
          /\ IF grant_args.state_token # None
             THEN grant.state_token = grant_args.state_token
             ELSE /\ Len(grant.state_token) = 32
                  /\ Len(DrawnChars) = 32
                  /\ \A i \in DOMAIN DrawnChars : DrawnChars[i] \in AlphabetChars
                  /\ grant.state_token = JoinChars(DrawnChars)
          /\ authorization_url # NoUrl =>
                /\ authorization_url.query[2][1] = "state"
                /\ UrlState = grant.state_token
                /\ (GetSessionStarted /\ HasParam("state")) =>
                      /\ CsrfErrorRaised <=> gs.query_params.state # UrlState
                      /\ CsrfErrorRaised => gs.outcome.message[2] = UrlState)
    /\ [][grant.state_token' = grant.state_token]_vars

\* a generated state token, put in an authorization URL, has come back on two
\* redirects, each accepted by get_session
C23_Witness ==
    /\ grant_args.state_token = None
    /\ authorization_url # NoUrl
    /\ Len(accepted) = 2
    /\ \A i \in DOMAIN accepted : accepted[i] = UrlState
    /\ gs.outcome.kind = "Session"

\* C24: the state token is single-use: once get_session has accepted a redirect
\* carrying a given state and produced a Session, no later get_session on the
\* same grant object accepts a redirect carrying that state again.
C24_StateTokenSingleUse ==
    \A i, j \in DOMAIN accepted : i # j => accepted[i] # accepted[j]

\* the secret a grant built in the given mode is to keep
ExpectedSecret ==
    IF grant_args.is_sandbox_mode
    THEN SANDBOX_MODE_PREFIX \o grant_args.client_secret
    ELSE grant_args.client_secret

\* C25: each grant constructor stores the client secret as prefix-hyphen-secret
\* when is_sandbox_mode is true and unchanged when it is false; that stored
\* value is the one sent in every token request of the grant and the one kept
\* in the Credential of the Session get_session returns.
C25_SandboxSecret ==
    /\ grant.client_secret = ExpectedSecret
    /\ \A i \in DOMAIN gs.sent :
          /\ gs.sent[i].client_secret = ExpectedSecret
          /\ gs.sent[i].auth = <<grant.client_id, ExpectedSecret>>
    /\ gs.outcome.kind = "Session" =>
          creds[sessions[gs.outcome.session].oauth2credential].client_secret =
              ExpectedSecret

\* a ClientCredentialGrant built in sandbox mode has sent its token request
\* and returned a Session
C25_Witness ==
    /\ grant_args.class = "ClientCredentialGrant"
    /\ grant_args.is_sandbox_mode
    /\ Len(gs.sent) = 1
    /\ Len(gs.sent[1].client_secret) = 2
    /\ gs.outcome.kind = "Session"

\* an AuthorizationCodeGrant built in sandbox mode has done the same
C25_WitnessAuthorizationCode ==
    /\ grant_args.class = "AuthorizationCodeGrant"
    /\ grant_args.is_sandbox_mode
    /\ Len(gs.sent) = 1
    /\ Len(gs.sent[1].client_secret) = 2
    /\ gs.outcome.kind = "Session"

\* C26: ClientCredentialGrant.get_session sends exactly one token request, with
\* grant_type client_credentials and the application's scopes, without code
\* and without refresh_token; answered 200 it returns a
\* Session whose credential has the client credentials grant type; no redirect
\* URL and no state token take part.
C26_ClientCredentialSession ==
    (grant_args.class = "ClientCredentialGrant" /\ GetSessionStarted) =>
        /\ Len(gs.sent) = 1
        /\ gs.sent[1].kind = "token"
        /\ gs.sent[1].grant_type = "client_credentials"
        /\ SeqToSet(gs.sent[1].scope) = grant.scopes
        /\ Len(gs.sent[1].scope) = Cardinality(grant.scopes)
        /\ gs.sent[1].code = None
        /\ gs.sent[1].refresh_token = None
        /\ gs.query_params = <<>>
        /\ "state_token" \notin DOMAIN grant
        /\ accepted = <<>>
        /\ (gs.replies # <<>> /\ gs.replies[1].status_code = 200) =>
              gs.outcome.kind = "Session"
        /\ gs.outcome.kind = "Session" =>
              /\ gs.replies[1].status_code = 200
              /\ creds[sessions[gs.outcome.session].oauth2credential].grant_type =
                    "client_credentials"

C26_Witness ==
    /\ grant_args.class = "ClientCredentialGrant"
    /\ gs.replies # <<>>
    /\ gs.replies[1].status_code = 200
    /\ gs.outcome.kind = "Session"
    /\ creds[sessions[gs.outcome.session].oauth2credential].scopes = {"public"}
    /\ gs.sent[1].scope = <<"profile", "public">>

\* C27: within one dispatch the order is: staleness check, then (if stale) the
\* refresh request, then the replacement of the client's session, then the
\* domain request; a domain request sent after a refresh carries the access
\* token of the refreshed session's credential, never the credential that was
\* found stale.
C27_DispatchOrder ==
    \A c \in Callers : Dispatching(c) =>
        /\ pc[c] = "check" => sent[c] = <<>>
        /\ pc[c] = "token_wait" =>
              /\ TokenCount(sent[c]) = 1 /\ DomainCount(sent[c]) = 0
              /\ sessions[client_session].oauth2credential = credential[c]
        /\ pc[c] = "assign" =>
              /\ TokenCount(sent[c]) = 1 /\ DomainCount(sent[c]) = 0
              /\ sessions[client_session].oauth2credential = credential[c]
              /\ refresh_session[c] # client_session
        /\ \A i \in DOMAIN sent[c] : sent[c][i].kind = "domain" =>
              /\ \A j \in DOMAIN sent[c] : sent[c][j].kind = "token" => j < i
              /\ TokenCount(sent[c]) > 0 =>
                    /\ refresh_session[c] # 0
                    /\ client_session = refresh_session[c]
                    /\ sent[c][i].session = refresh_session[c]
                    /\ sent[c][i].credential = sessions[refresh_session[c]].oauth2credential
                    /\ sent[c][i].credential # credential[c]
                    /\ sent[c][i].authorization[2] =
                          creds[sessions[refresh_session[c]].oauth2credential].access_token

\* a dispatch found "at0" stale, refreshed, and sent its domain request with
\* the new credential's "at1"
C27_Witness ==
    \E c \in Callers :
        /\ Dispatching(c)
        /\ outcome[c].kind = "Response"
        /\ Len(sent[c]) = 2
        /\ sent[c][1].kind = "token"
        /\ sent[c][2].kind = "domain"
        /\ creds[credential[c]].access_token = "at0"
        /\ sent[c][2].authorization[2] = "at1"
        /\ sent[c][2].credential # credential[c]

\* C28: when the credential the client holds is not stale, a dispatch sends no
\* token request and leaves the client's session reference and the credential
\* as they are; the client's session changes only by the assignment that
\* follows a successful refresh.
C28_NoRefreshUnlessStale ==
    /\ [][\A c \in Callers :
            /\ (/\ pc[c] = "check"
                /\ pc'[c] # "check"
                /\ ~is_stale(creds[sessions[client_session].oauth2credential], now)) =>
                  /\ pc'[c] = "request"
                  /\ sent'[c] = <<>>
            /\ (/\ TokenCount(sent'[c]) > 0
                /\ sent'[c] # sent[c]
                /\ TokenCount(sent'[c]) > TokenCount(sent[c])) =>
                  is_stale(creds[credential[c]], now)
            /\ client_session' # client_session =>
                  \E d \in Callers :
                      /\ pc[d] = "assign"
                      /\ TokenCount(sent[d]) = 1
                      /\ refresh_session[d] = Len(sessions)
                      /\ client_session' = refresh_session[d]
            /\ \A i \in DOMAIN creds : creds'[i] = creds[i]
            /\ \A i \in DOMAIN sessions : sessions'[i] = sessions[i]]_vars
    /\ [](\A c \in Callers :
            (Dispatching(c) /\ credential[c] # 0 /\ TokenCount(sent[c]) = 0) =>
                sessions[client_session].oauth2credential = credential[c])

\* a dispatch on a credential that is not stale has been answered: one domain
\* request, no token request, the client still holding its first session
C28_Witness ==
    \E c \in Callers :
        /\ Dispatching(c)
        /\ outcome[c].kind = "Response"
        /\ Len(sent[c]) = 1
        /\ sent[c][1].kind = "domain"
        /\ client_session = 1
        /\ Len(sessions) = 1
        /\ ~is_stale(creds[1], now)

\* C29: when the refresh inside a dispatch fails, on an unsupported grant type
\* or on the token endpoint's answer, the error reaches the caller, the client
\* still holds the old, stale session, and no domain request is sent for that
\* call; a domain request follows a token request only if the refresh built a
\* new session.
C29_FailedRefreshStops ==
    /\ [][\A c \in Callers :
            (pc[c] \in {"check", "token_wait"} /\ pc'[c] = "idle") =>
                /\ IsFailure(outcome'[c])
                /\ pc[c] = "check" =>
                      /\ outcome'[c].kind = "LyftIllegalState"
                      /\ ~SupportedGrant(creds[credential[c]])
                      /\ sent'[c] = <<>>
                /\ client_session' = client_session
                /\ sessions'[client_session'] = sessions[client_session]
                /\ sessions[client_session].oauth2credential = credential[c]
                /\ creds'[credential[c]] = creds[credential[c]]
                /\ is_stale(creds'[credential[c]], now')
                /\ DomainCount(sent'[c]) = 0]_vars
    /\ [](\A c \in Callers : Dispatching(c) =>
            /\ (pc[c] = "idle" /\ IsFailure(outcome[c]) /\ DomainCount(sent[c]) = 0) =>
                  /\ sessions[client_session].oauth2credential = credential[c]
                  /\ is_stale(creds[credential[c]], now)
            /\ (DomainCount(sent[c]) > 0 /\ TokenCount(sent[c]) > 0) =>
                  /\ refresh_session[c] # 0
                  /\ client_session = refresh_session[c])

\* the token endpoint refused a refresh: the caller got the ClientError, only
\* the token request was sent, and the client holds its first session
C29_Witness ==
    \E c \in Callers :
        /\ Dispatching(c)
        /\ pc[c] = "idle"
        /\ outcome[c].kind = "ClientError"
        /\ Len(sent[c]) = 1
        /\ sent[c][1].kind = "token"
        /\ client_session = 1
        /\ is_stale(creds[1], now)

\* the held credential's grant type cannot be refreshed: LyftIllegalState,
\* nothing sent
C29_WitnessUnsupported ==
    \E c \in Callers :
        /\ Dispatching(c)
        /\ pc[c] = "idle"
        /\ outcome[c].kind = "LyftIllegalState"
        /\ sent[c] = <<>>
        /\ client_session = 1

\* C30: however many refreshes have succeeded, the credential the client holds
\* has the client id, the client secret and the grant type of the credential
\* the client started with; the sandbox prefix, put before the secret once by
\* the grant's constructor, is never put there a second time.
C30_RefreshKeepsIdentity ==
    /\ \A i \in DOMAIN creds :
          /\ creds[i].client_id = creds[1].client_id
          /\ creds[i].client_secret = creds[1].client_secret
          /\ creds[i].grant_type = creds[1].grant_type
    /\ client_session # 0 =>
          LET held == creds[sessions[client_session].oauth2credential]
          IN /\ held.client_id = grant.client_id
             /\ held.client_secret = ExpectedSecret
             /\ held.grant_type = "authorization_code"

\* a client whose grant was built in sandbox mode has refreshed twice
C30_Witness ==
    /\ grant_args.is_sandbox_mode
    /\ storage.kind = "file"
    /\ storage.loaded_as = 0
    /\ Len(creds) = 3
    /\ client_session = 3
    /\ sessions[3].oauth2credential = 3
    /\ creds[3].client_secret = <<"SANDBOX", "s3cret">>
    /\ \E c \in Callers : outcome[c].kind = "Response" /\ TokenCount(sent[c]) = 1

\* C31: after a successful refresh of an authorization code credential that
\* has a refresh token, the new credential has a refresh token too: the one of
\* the token response, or the old one when the response carries none.
C31_RefreshTokenKept ==
    \A c \in Callers :
        (/\ Dispatching(c)
         /\ refresh_session[c] # 0
         /\ creds[credential[c]].grant_type = "authorization_code"
         /\ creds[credential[c]].refresh_token # None) =>
            LET new == creds[sessions[refresh_session[c]].oauth2credential]
            IN /\ new.refresh_token # None
               /\ new.refresh_token \in RefreshTokens

\* the credential the client holds
Held == creds[sessions[client_session].oauth2credential]

\* C32: a client holding a stale credential whose grant type is neither
\* authorization code nor client credentials fails every dispatch with
\* LyftIllegalState and sends no HTTP request for it; it stays so for all later
\* calls: the credential stays stale and the session is never replaced.
C32_UnsupportedGrantFatal ==
    /\ [][~SupportedGrant(Held) =>
            /\ \A c \in Callers :
                  (/\ pc[c] = "check"
                   /\ pc'[c] # "check"
                   /\ is_stale(Held, now)) =>
                      /\ pc'[c] = "idle"
                      /\ outcome'[c].kind = "LyftIllegalState"
                      /\ sent'[c] = <<>>
            /\ client_session' = client_session
            /\ sessions' = sessions
            /\ creds' = creds
            /\ is_stale(Held, now) => is_stale(Held, now')]_vars
    /\ [](~SupportedGrant(Held) =>
            \A c \in Callers : Dispatching(c) =>
                /\ TokenCount(sent[c]) = 0
                /\ (pc[c] = "idle" /\ sent[c] = <<>> /\ outcome[c].kind # "none") =>
                      /\ outcome[c].kind = "LyftIllegalState"
                      /\ is_stale(Held, now))

\* a client whose implicit grant credential was stale from the start has
\* made its second call, which failed like the first, nothing sent
C32_Witness ==
    \E c \in Callers :
        /\ Held.grant_type = "implicit"
        /\ born[1].ttl = 0
        /\ calls = 2
        /\ revoked = {}
        /\ Dispatching(c)
        /\ pc[c] = "idle"
        /\ outcome[c].kind = "LyftIllegalState"
        /\ sent[c] = <<>>
        /\ client_session = 1

\* C33: in the error adapter, a body with both `error_detail` and
\* `error_description` gives the details of `error_detail` only, the
\* description is not among them; entries of `error_detail` that are not
\* mappings give no detail; a body with `error_description` alone gives that
\* string as the sole detail, and a body with neither gives an empty list.
C33_AdapterDetailSource ==
    (result.fn = "ClientError" /\ Adaptable(arg)) =>
        /\ result.out.exc.kind = "ClientError"
        /\ LET errors == result.out.exc.errors
           IN IF "error_detail" \in DOMAIN arg.body
              THEN LET D == DictEntries(arg.body.error_detail)
                   IN /\ Len(errors) = PairsBefore(D, Len(D) + 1)
                      /\ \A i \in DOMAIN D : \A j \in DOMAIN D[i].items :
                             errors[PairsBefore(D, i) + j] =
                                 ErrorDetails(D[i].items[j][1], D[i].items[j][2])
              ELSE IF "error_description" \in DOMAIN arg.body
              THEN errors = <<arg.body.error_description>>
              ELSE errors = <<>>

\* a body with one mapping in `error_detail` and an `error_description`
C33_Witness ==
    /\ result.fn = "ClientError"
    /\ Adaptable(arg)
    /\ {"error_detail", "error_description"} \subseteq DOMAIN arg.body
    /\ Len(arg.body.error_detail) = 1
    /\ result.out.exc.kind = "ClientError"
    /\ result.out.exc.errors = <<ErrorDetails("ride_id", "is unknown")>>

\* a body with a string among the entries of `error_detail`
C33_WitnessStringEntry ==
    /\ result.fn = "ClientError"
    /\ Adaptable(arg)
    /\ "error_detail" \in DOMAIN arg.body
    /\ \E i \in DOMAIN arg.body.error_detail : ~arg.body.error_detail[i].is_dict
    /\ Len(result.out.exc.errors) = 3

\* a body with `error` alone
C33_WitnessNeither ==
    /\ result.fn = "ClientError"
    /\ Adaptable(arg)
    /\ DOMAIN arg.body = {"error"}
    /\ result.out.exc.kind = "ClientError"
    /\ result.out.exc.errors = <<>>

\* C34: AuthorizationCodeGrant.get_session sends its token request only after
\* the query verification has yielded an authorization code; the request has
\* grant_type authorization_code, exactly that code, no scope and no
\* refresh_token; and the credential of the Session returned has the
\* authorization code grant type and the grant's client id and client secret.
C34_CodeExchange ==
    GetSessionStarted =>
        /\ gs.sent # <<>> =>
              /\ Len(gs.sent) = 1
              /\ HasParam("state") /\ gs.query_params.state = grant.state_token
              /\ HasParam("code") /\ ~HasParam("error")
              /\ gs.sent[1].kind = "token"
              /\ gs.sent[1].grant_type = "authorization_code"
              /\ gs.sent[1].code = gs.query_params.code
              /\ gs.sent[1].code # None
              /\ gs.sent[1].scope = None
              /\ gs.sent[1].refresh_token = None
        /\ gs.outcome.kind \in {"pending", "Session"} => Len(gs.sent) = 1
        /\ gs.outcome.kind = "Session" =>
              LET cred == creds[sessions[gs.outcome.session].oauth2credential]
              IN /\ cred.grant_type = "authorization_code"
                 /\ cred.client_id = grant.client_id
                 /\ cred.client_secret = grant.client_secret

\* a grant in sandbox mode exchanged the code c1 for a Session
C34_Witness ==
    /\ gs.outcome.kind = "Session"
    /\ gs.query_params.code = "c1"
    /\ gs.sent[1].code = "c1"
    /\ grant_args.is_sandbox_mode
    /\ creds[sessions[gs.outcome.session].oauth2credential].client_secret =
          <<"SANDBOX", "s3cret">>

====
